---- MODULE Spec2Model ----
(***************************************************************************)
(* Model of the indexing / retrieval layer of api-deep-search:             *)
(*   app/factory/faiss_store.py        local (FAISS) vector store          *)
(*   app/factory/qdrant_store.py       remote (Qdrant) vector store        *)
(*   app/services/langchain_rag_service.py   ingest / query orchestration  *)
(*   app/services/file_storage.py, app/api/oas_routes.py  upload directory *)
(*   app/services/vector_store.py, app/api/routes.py    the /api routes    *)
(*   app/services/llm_factory.py       chat client of the provider         *)
(*   app/services/embedding_service.py, app/config/settings.py  dimension  *)
(*                                                                         *)
(* A document of the FAISS docstore is a record [text, metadata]; metadata *)
(* is a record whose fields are the metadata keys (all values strings).    *)
(* The ranking a query induces on the docstore depends on the embedding of *)
(* the query text, so a query is represented by the permutation it induces.*)
(***************************************************************************)
EXTENDS Integers, Sequences, FiniteSets, TLC

\* ------------------------------------------------------------------ bounds
MaxEndpoints == 2      \* endpoints of one ingested specification
MaxDocs == 3           \* endpoint documents held by the local index
MaxK == 2              \* result size of a query

\* ------------------------------------------------------------- value sets
Keys == {"upload/a.json", "upload/b.json"}
NoPath == ""
Versions == {"3.0.0", "2.0"}
None == "None"
Queries == 0..MaxEndpoints

Procs == {1, 2}

\* class Settings with its default values (the fields the model reads)
DefaultSettings ==
    [llm_provider |-> "deepseek",
     deepseek_model |-> "deepseek-chat",
     deepseek_base_url |-> "https://api.deepseek.com/v1",
     openai_model |-> "gpt-3.5-turbo",
     openai_base_url |-> "https://api.openai.com/v1",
     siliconflow_model |-> "sf-llama3-70b-chat",
     siliconflow_base_url |-> "https://api.siliconflow.com/v1",
     embedding_provider |-> "local",
     embedding_dimension |-> 1024]

\* ------------------------------------------------------------- utilities
Min(a, b) == IF a < b THEN a ELSE b

Take(s, n) == SubSeq(s, 1, Min(n, Len(s)))

RECURSIVE Flatten(_)
Flatten(ss) == IF ss = <<>> THEN <<>> ELSE Head(ss) \o Flatten(Tail(ss))

\* dict.get(key) of a metadata record
Get(md, key) == IF key \in DOMAIN md THEN md[key] ELSE None

\* -------------------------------------------------------------- variables
VARIABLES
    vector_store,   \* FAISSStore.vector_store: the docstore, in index order
    metadata_map,   \* FAISSStore.metadata_map: ordered <<[key, docs]>>
    diskFaiss,      \* index.faiss  [exists, data]
    diskPkl,        \* index.pkl    [exists, data]
    diskMeta,       \* metadata.json [exists, data]
    last,           \* the last completed call and its outcome
    cleanRun,       \* number of clean() calls that returned True in a row
    gone,           \* keys deleted from the index and not ingested since
    points,         \* the Qdrant collection: payloads of its points
    collection,     \* the collection of the /api routes: one record per
                    \* ingested specification [file_path, openapi_version,
                    \* count], count points carrying that payload
    provider,       \* settings.vector_store_provider: "faiss" or "qdrant"
    files,          \* upload directory: per file name [state, endpoints]
    allOk,          \* every request so far completed with status 200 (for
                    \* calls on the store: no call so far hit a failing step)
    req,            \* concurrent requests: the call each one serves
    pc,             \* concurrent requests: the position of each one
    inst,           \* concurrent requests: the store instance of each one
    settings,       \* app.config.settings.settings (the fields modelled)
    vector_size     \* vectors_config.size of the Qdrant collection

storeVars == <<vector_store, metadata_map, diskFaiss, diskPkl, diskMeta>>

histVars == <<cleanRun, gone>>

routeVars == <<provider, files, allOk>>

concVars == <<req, pc, inst>>

cfgVars == <<settings, vector_size>>

vars == <<vector_store, metadata_map, diskFaiss, diskPkl, diskMeta, last,
          cleanRun, gone, points, collection, provider, files, allOk, req, pc,
          inst, settings, vector_size>>

\* ------------------------------------------------- LangchainRAGService
\* the i-th endpoint of a specification
EndpointId(i) == "e" \o ToString(i)

PrepareEndpointText(ep) == "path: /" \o ep \o "; method: GET"

\* metadata assembled for one endpoint by store_api_spec
EndpointMetadata(ep, ver, file_path) ==
    IF file_path # NoPath
    THEN [openapi_version |-> ver, endpoint |-> ep,
          text |-> PrepareEndpointText(ep), file_path |-> file_path]
    ELSE [openapi_version |-> ver, endpoint |-> ep,
          text |-> PrepareEndpointText(ep)]

\* the (texts, metadatas) batch of a specification with n endpoints
SpecMetadatas(n, ver, file_path) ==
    [i \in 1..n |-> EndpointMetadata(EndpointId(i), ver, file_path)]

\* ------------------------------------------------------------- FAISSStore
InitDocument == [text |-> "init-index", metadata |-> [init |-> "True"]]

FreshIndex == <<InitDocument>>

\* a file name save_api_spec has not generated yet
NewFile == [state |-> "new", endpoints |-> 0]

File(d) == [exists |-> TRUE, data |-> d]
NoFile == [exists |-> FALSE, data |-> <<>>]

\* an index file that exists but cannot be deserialized (cut short by a
\* process that stopped while writing it); a saved index has at least one
\* member, so the data of a readable index file is never empty
Truncated == [exists |-> TRUE, data |-> <<>>]

Readable(f) == f.exists /\ f.data # <<>>

\* (mutant) _load_or_create_index without the try/except around load_local
LoadOrCreateIndexNoFallback(faiss, pkl) ==
    IF faiss.exists /\ pkl.exists THEN pkl.data ELSE FreshIndex

\* FAISSStore._load_or_create_index
LoadOrCreateIndex(faiss, pkl) ==
    IF faiss.exists /\ pkl.exists
    THEN IF Readable(faiss) /\ Readable(pkl) THEN pkl.data ELSE FreshIndex
    ELSE FreshIndex

LoadMetadata(meta) == IF meta.exists THEN meta.data ELSE <<>>

MapKeys(mm) == {mm[i].key : i \in DOMAIN mm}

MapIndex(mm, key) == CHOOSE i \in DOMAIN mm : mm[i].key = key

MapGet(mm, key) == mm[MapIndex(mm, key)].docs

\* (mutant) a metadata whose text is already recorded under some key is not
\* recorded again
MapAppendDedup(mm, md) ==
    LET file_path == Get(md, "file_path") IN
    IF file_path = None \/ file_path = NoPath THEN mm
    ELSE IF \E i \in DOMAIN mm : \E j \in DOMAIN mm[i].docs :
                mm[i].docs[j].text = md.text
         THEN mm
         ELSE Append(mm, [key |-> file_path, docs |-> <<md>>])

\* (mutant) the list of a key is replaced by the new metadata
MapAppendOverwrites(mm, md) ==
    LET file_path == Get(md, "file_path") IN
    IF file_path = None \/ file_path = NoPath THEN mm
    ELSE IF file_path \in MapKeys(mm)
         THEN [mm EXCEPT ![MapIndex(mm, file_path)].docs = <<md>>]
         ELSE Append(mm, [key |-> file_path, docs |-> <<md>>])

\* metadata_map after the loop of add_texts over one metadata
MapAppend(mm, md) ==
    LET file_path == Get(md, "file_path") IN
    IF file_path = None \/ file_path = NoPath THEN mm
    ELSE IF file_path \in MapKeys(mm)
         THEN [mm EXCEPT ![MapIndex(mm, file_path)].docs = Append(@, md)]
         ELSE Append(mm, [key |-> file_path, docs |-> <<md>>])

RECURSIVE MapAppendAll(_, _)
MapAppendAll(mm, mds) ==
    IF mds = <<>> THEN mm ELSE MapAppendAll(MapAppend(mm, Head(mds)), Tail(mds))

\* (mutant) the entry of file_path is left in the map
MapDeleteKeepsKey(mm, key) == mm

\* del self.metadata_map[file_path]
MapDelete(mm, key) == SelectSeq(mm, LAMBDA e : e.key # key)

\* documents rebuilt from the surviving metadata entries
RebuildDocuments(mm) ==
    Flatten([i \in DOMAIN mm |->
        [j \in DOMAIN mm[i].docs |->
            [text |-> Get(mm[i].docs[j], "text"), metadata |-> mm[i].docs[j]]]])

AddedDocs(mds) == [i \in DOMAIN mds |-> [text |-> mds[i].text, metadata |-> mds[i]]]

EndpointDocs(idx) == SelectSeq(idx, LAMBDA d : "endpoint" \in DOMAIN d.metadata)

DocsOfKey(idx, key) == SelectSeq(idx, LAMBDA d : Get(d.metadata, "file_path") = key)

\* a request that has not constructed its store yet
NoInstance == [ivec |-> <<>>, vs |-> <<>>, mm |-> <<>>]

\* the store as one value: in-memory fields and the three persisted files
StoreState == [vs |-> vector_store, mm |-> metadata_map,
               dF |-> diskFaiss, dP |-> diskPkl, dM |-> diskMeta]

\* points at which a call can fail: the embedding provider, or one file write
FailPoints == {"none", "embed", "write_faiss", "write_pkl", "save_metadata"}

\* (mutant) clean() that recreates the index but keeps the provenance map
FaissCleanKeepsMetadata(st, failAt) ==
    [st |-> [st EXCEPT !.vs = FreshIndex, !.dF = File(FreshIndex),
                       !.dP = File(FreshIndex), !.dM = File(st.mm)],
     ret |-> TRUE]

\* FAISSStore.clean
FaissClean(st, failAt) ==
    IF failAt = "embed" THEN [st |-> st, ret |-> FALSE]
    ELSE IF failAt = "write_faiss"
    THEN [st |-> [st EXCEPT !.vs = FreshIndex], ret |-> FALSE]
    ELSE IF failAt = "write_pkl"
    THEN [st |-> [st EXCEPT !.vs = FreshIndex, !.dF = File(FreshIndex)],
          ret |-> FALSE]
    ELSE IF failAt = "save_metadata"
    THEN [st |-> [st EXCEPT !.vs = FreshIndex, !.dF = File(FreshIndex),
                            !.dP = File(FreshIndex), !.mm = <<>>],
          ret |-> FALSE]
    ELSE [st |-> [st EXCEPT !.vs = FreshIndex, !.dF = File(FreshIndex),
                            !.dP = File(FreshIndex), !.mm = <<>>,
                            !.dM = File(<<>>)],
          ret |-> TRUE]

\* (mutant) delete_by_file_path without the early return: a key that is not
\* in the map leads to the rebuild and the save as well
FaissDeleteNoEarlyReturn(st, file_path, failAt) ==
    LET count == IF file_path \in MapKeys(st.mm)
                 THEN Len(MapGet(st.mm, file_path)) ELSE 0
        mm1 == MapDelete(st.mm, file_path)
        documents == IF RebuildDocuments(mm1) # <<>>
                     THEN RebuildDocuments(mm1) ELSE FreshIndex
    IN [st |-> [st EXCEPT !.mm = mm1, !.vs = documents, !.dF = File(documents),
                          !.dP = File(documents), !.dM = File(mm1)],
        ret |-> count, raised |-> FALSE]

\* FAISSStore.delete_by_file_path; raised is TRUE when the except branch ran
FaissDeleteByFilePath(st, file_path, failAt) ==
    IF file_path \notin MapKeys(st.mm)
    THEN [st |-> st, ret |-> 0, raised |-> FALSE]
    ELSE
      LET count == Len(MapGet(st.mm, file_path))
          st1 == [st EXCEPT !.mm = MapDelete(st.mm, file_path)]
          documents == RebuildDocuments(st1.mm)
      IN
      IF documents # <<>>
      THEN IF failAt = "embed"
           THEN [st |-> st1, ret |-> 0, raised |-> TRUE]
           ELSE IF failAt = "write_faiss"
           THEN [st |-> [st1 EXCEPT !.vs = documents], ret |-> 0, raised |-> TRUE]
           ELSE IF failAt = "write_pkl"
           THEN [st |-> [st1 EXCEPT !.vs = documents, !.dF = File(documents)],
                 ret |-> 0, raised |-> TRUE]
           ELSE IF failAt = "save_metadata"
           THEN [st |-> [st1 EXCEPT !.vs = documents, !.dF = File(documents),
                                    !.dP = File(documents)],
                 ret |-> 0, raised |-> TRUE]
           ELSE [st |-> [st1 EXCEPT !.vs = documents, !.dF = File(documents),
                                    !.dP = File(documents), !.dM = File(st1.mm)],
                 ret |-> count, raised |-> FALSE]
      ELSE LET c == FaissClean(st1, failAt) IN
           IF failAt = "save_metadata"
           THEN [st |-> c.st, ret |-> 0, raised |-> TRUE]
           ELSE [st |-> [c.st EXCEPT !.dM = File(c.st.mm)],
                 ret |-> count, raised |-> FALSE]

\* (mutant) add_texts that saves the index but not the provenance map
FaissAddTextsNoMetadataSave(st, mds, failAt) ==
    LET vs1 == st.vs \o AddedDocs(mds)
        mm1 == MapAppendAll(st.mm, mds)
    IN [st |-> [st EXCEPT !.vs = vs1, !.mm = mm1, !.dF = File(vs1),
                          !.dP = File(vs1)],
        raised |-> failAt # "none"]

\* FAISSStore.add_texts; raised is TRUE when an exception reaches the caller
FaissAddTexts(st, mds, failAt) ==
    LET vs1 == st.vs \o AddedDocs(mds)
        mm1 == MapAppendAll(st.mm, mds)
    IN
    IF failAt = "embed" THEN [st |-> st, raised |-> TRUE]
    ELSE IF failAt = "write_faiss"
    THEN [st |-> [st EXCEPT !.vs = vs1, !.mm = mm1], raised |-> TRUE]
    ELSE IF failAt = "write_pkl"
    THEN [st |-> [st EXCEPT !.vs = vs1, !.mm = mm1, !.dF = File(vs1)],
          raised |-> TRUE]
    ELSE IF failAt = "save_metadata"
    THEN [st |-> [st EXCEPT !.vs = vs1, !.mm = mm1, !.dF = File(vs1),
                            !.dP = File(vs1)],
          raised |-> TRUE]
    ELSE [st |-> [st EXCEPT !.vs = vs1, !.mm = mm1, !.dF = File(vs1),
                            !.dP = File(vs1), !.dM = File(mm1)],
          raised |-> FALSE]

\* FAISSStore.__init__: a new instance over the persisted files
FaissConstruct(st) ==
    [st EXCEPT !.vs = LoadOrCreateIndex(st.dF, st.dP), !.mm = LoadMetadata(st.dM)]

\* ----------------------------------------------------------------- search
NoFilter == [none |-> TRUE]

\* Filter(must=[FieldCondition(key, match=MatchValue(value))])
FieldCondition(key, value) == [key |-> key, match |-> [value |-> value]]

\* the loop over filter.must in _matches_filter
RECURSIVE MustLoop(_, _)
MustLoop(metadata, must) ==
    IF must = <<>> THEN "True"
    ELSE LET condition == Head(must) IN
         IF "key" \in DOMAIN condition /\ "match" \in DOMAIN condition
         THEN IF "value" \notin DOMAIN condition.match THEN "raise"
              ELSE IF Get(metadata, condition.key) # condition.match.value
                   THEN "False"
                   ELSE MustLoop(metadata, Tail(must))
         ELSE MustLoop(metadata, Tail(must))

\* FAISSStore._matches_filter: "True", "False" or "raise" (AttributeError)
MatchesFilter(metadata, filter) ==
    IF "must" \in DOMAIN filter /\ filter.must # <<>>
    THEN MustLoop(metadata, filter.must)
    ELSE "False"

\* embedding of a text as a point on a line: the placeholder text at 0, the
\* text of the i-th endpoint at i; a query is the point its text embeds to
Embed(text) ==
    IF text = InitDocument.text THEN 0
    ELSE CHOOSE i \in 1..MaxEndpoints : PrepareEndpointText(EndpointId(i)) = text

Distance(query, doc) ==
    IF Embed(doc.text) >= query THEN Embed(doc.text) - query
    ELSE query - Embed(doc.text)

\* the index ranked for a query, nearest first (ties in index order)
Ranked(idx, query) ==
    Flatten([d \in 1..(MaxEndpoints + 1) |->
                SelectSeq(idx, LAMBDA doc : Distance(query, doc) = d - 1)])

Multiplier == 3

\* (mutant) the loop without `if len(filtered_results) >= k: break`
FilterLoopNoBreak(results, filter, k, filtered_results) ==
    IF \E i \in DOMAIN results : MatchesFilter(results[i].metadata, filter) = "raise"
    THEN [raised |-> TRUE, docs |-> <<>>]
    ELSE [raised |-> FALSE,
          docs |-> filtered_results \o
                   SelectSeq(results,
                             LAMBDA d : MatchesFilter(d.metadata, filter) = "True")]

\* the manual filtering loop of similarity_search, with its early break
RECURSIVE FilterLoop(_, _, _, _)
FilterLoop(results, filter, k, filtered_results) ==
    IF results = <<>> THEN [raised |-> FALSE, docs |-> filtered_results]
    ELSE LET m == MatchesFilter(Head(results).metadata, filter) IN
         IF m = "raise" THEN [raised |-> TRUE, docs |-> <<>>]
         ELSE IF m = "True"
         THEN LET acc == Append(filtered_results, Head(results)) IN
              IF Len(acc) >= k THEN [raised |-> FALSE, docs |-> acc]
              ELSE FilterLoop(Tail(results), filter, k, acc)
         ELSE FilterLoop(Tail(results), filter, k, filtered_results)

\* (mutant) the ranking is cut to k before the filter is applied
FaissSimilaritySearchNoOverFetch(ranking, k, filter) ==
    IF filter = NoFilter
    THEN [raised |-> FALSE, docs |-> Take(ranking, k)]
    ELSE FilterLoop(Take(ranking, k), filter, k, <<>>)

\* FAISSStore.similarity_search
\* (ranking: the whole index as the query ranks it, nearest first)
FaissSimilaritySearch(ranking, k, filter) ==
    IF filter = NoFilter
    THEN [raised |-> FALSE, docs |-> Take(ranking, k)]
    ELSE FilterLoop(Take(ranking, k * Multiplier), filter, k, <<>>)

\* LangchainRAGService._process_search_results
ProcessSearchResults(search_results) == EndpointDocs(search_results)

\* LangchainRAGService.search_by_version
SearchByVersionResult(ranking, openapi_version, top_k) ==
    LET filter_condition ==
            IF openapi_version = None THEN NoFilter
            ELSE [must |-> <<FieldCondition("openapi_version", openapi_version)>>]
    IN ProcessSearchResults(
           FaissSimilaritySearch(ranking, top_k, filter_condition).docs)

\* ---------------------------------------------------------------- actions
SetStore(st) ==
    /\ vector_store' = st.vs
    /\ metadata_map' = st.mm
    /\ diskFaiss' = st.dF
    /\ diskPkl' = st.dP
    /\ diskMeta' = st.dM

Init ==
    /\ vector_store = FreshIndex
    /\ metadata_map = <<>>
    /\ diskFaiss = NoFile
    /\ diskPkl = NoFile
    /\ diskMeta = NoFile
    /\ last = [op |-> "init"]
    /\ cleanRun = 0
    /\ gone = {}
    /\ points = <<>>
    /\ collection = <<>>
    /\ provider = "faiss"
    /\ files = [fp \in Keys |-> NewFile]
    /\ allOk = TRUE
    /\ req = [p \in Procs |-> [op |-> "none"]]
    /\ pc = [p \in Procs |-> "idle"]
    /\ inst = [p \in Procs |-> NoInstance]
    /\ settings = DefaultSettings
    /\ vector_size = DefaultSettings.embedding_dimension

\* LangchainRAGService.store_api_spec on the local store
StoreApiSpec(n, ver, file_path) ==
    LET mds == SpecMetadatas(n, ver, file_path)
        r == FaissAddTexts(StoreState, mds, "none")
    IN
    /\ Len(EndpointDocs(vector_store)) + n <= MaxDocs
    /\ SetStore(r.st)
    /\ last' = [op |-> "store", key |-> file_path, batch |-> mds,
                empty |-> EndpointDocs(vector_store) = <<>>,
                cleans |-> cleanRun]
    /\ cleanRun' = 0
    /\ gone' = gone \ {file_path}
    /\ UNCHANGED <<points, routeVars, concVars, collection, cfgVars>>

\* LangchainRAGService.delete_embeddings_by_file_path on the local store
DeleteEmbeddingsByFilePath(file_path) ==
    LET r == FaissDeleteByFilePath(StoreState, file_path, "none") IN
    /\ SetStore(r.st)
    /\ last' = [op |-> "delete", key |-> file_path, ret |-> r.ret,
                held |-> Len(DocsOfKey(vector_store, file_path))]
    /\ cleanRun' = 0
    /\ gone' = IF r.ret > 0 THEN gone \cup {file_path} ELSE gone
    /\ UNCHANGED <<points, routeVars, concVars, collection, cfgVars>>

\* LangchainRAGService.clean_collection on the local store
CleanCollection ==
    LET r == FaissClean(StoreState, "none") IN
    /\ SetStore(r.st)
    /\ last' = [op |-> "clean", ret |-> r.ret]
    /\ cleanRun' = IF r.ret THEN Min(cleanRun + 1, 2) ELSE 0
    /\ UNCHANGED <<gone, points, routeVars, concVars, collection, cfgVars>>

\* LangchainRAGService.search_by_version on the local store (a query leaves
\* the store as it is, so queries are taken from the states the other calls
\* reach: a query after a query finds nothing new)
SearchByVersion(query, openapi_version, top_k) ==
    /\ last.op # "search"
    /\ last' = [op |-> "search", version |-> openapi_version, top_k |-> top_k,
                sources |-> SearchByVersionResult(Ranked(vector_store, query),
                                                  openapi_version, top_k),
                ingested |-> IF last.op = "store" /\ last.empty
                             THEN Len(last.batch) ELSE 0]
    /\ cleanRun' = 0
    /\ UNCHANGED <<storeVars, gone, points, routeVars, concVars, collection, cfgVars>>

\* a new FAISSStore instance is constructed over the index directory
NewStore ==
    /\ SetStore(FaissConstruct(StoreState))
    /\ last' = [op |-> "construct"]
    /\ cleanRun' = 0
    /\ UNCHANGED <<gone, points, routeVars, concVars, collection, cfgVars>>

\* FAISSStore.similarity_search applied to a drawn ranking and query (k, filter)
SimilaritySearch ==
    /\ last.op = "query"
    /\ LET r == FaissSimilaritySearch(vector_store, last.k, last.filter) IN
       last' = [op |-> "similarity_search", k |-> last.k,
                filter |-> last.filter, raised |-> r.raised, docs |-> r.docs]
    /\ UNCHANGED <<storeVars, histVars, points, routeVars, concVars, collection,
                   cfgVars>>

Next ==
    \/ \E n \in 1..MaxEndpoints, ver \in Versions, fp \in Keys \cup {NoPath} :
          StoreApiSpec(n, ver, fp)
    \/ \E fp \in Keys : DeleteEmbeddingsByFilePath(fp)
    \/ CleanCollection
    \/ \E query \in Queries, ver \in Versions \cup {None}, top_k \in 1..MaxK :
          SearchByVersion(query, ver, top_k)
    \/ NewStore

Spec == Init /\ [][Next]_vars

\* ------------------------------------------- search over a drawn ranking
MaxCorpus == 4         \* documents of a drawn ranking
MaxConds == 2          \* conditions in filter.must

DocPool ==
    {InitDocument} \cup
    {[text |-> PrepareEndpointText("e1"),
      metadata |-> EndpointMetadata("e1", ver, fp)] :
        ver \in Versions, fp \in Keys}

RECURSIVE SeqsUpTo(_, _)
SeqsUpTo(S, n) ==
    IF n = 0 THEN {<<>>}
    ELSE LET shorter == SeqsUpTo(S, n - 1) IN
         shorter \cup {Append(q, x) : q \in shorter, x \in S}

\* conditions: FieldCondition with MatchValue; a condition without key and
\* match (HasIdCondition, a nested Filter); a FieldCondition whose match has
\* no value (MatchAny)
CondPool ==
    {FieldCondition("openapi_version", ver) : ver \in Versions}
    \cup {FieldCondition("file_path", "upload/a.json")}
    \cup {[has_id |-> "p1"]}
    \cup {[key |-> "openapi_version", match |-> [any |-> "3.0.0"]]}

FilterPool ==
    {NoFilter}
    \cup {[must |-> m] : m \in SeqsUpTo(CondPool, MaxConds)}
    \cup {[should |-> <<c>>] : c \in CondPool}

InitSearch ==
    /\ vector_store \in SeqsUpTo(DocPool, MaxCorpus) \ {<<>>}
    /\ metadata_map = <<>>
    /\ diskFaiss = NoFile
    /\ diskPkl = NoFile
    /\ diskMeta = NoFile
    /\ last \in {[op |-> "query", k |-> k, filter |-> f] :
                    k \in 1..MaxK, f \in FilterPool}
    /\ cleanRun = 0
    /\ gone = {}
    /\ points = <<>>
    /\ collection = <<>>
    /\ provider = "faiss"
    /\ files = [fp \in Keys |-> NewFile]
    /\ allOk = TRUE
    /\ req = [p \in Procs |-> [op |-> "none"]]
    /\ pc = [p \in Procs |-> "idle"]
    /\ inst = [p \in Procs |-> NoInstance]
    /\ settings = DefaultSettings
    /\ vector_size = DefaultSettings.embedding_dimension

NextSearch == SimilaritySearch

SpecSearch == InitSearch /\ [][NextSearch]_vars

\* ------------------------------------------------------------ QdrantStore
MaxPoints == 12        \* points held by the collection
MaxBatch == 11         \* endpoints of one specification added to the collection

\* client.scroll is called without limit: the client's page size
ScrollLimit == 10

\* positions of the points whose file_path payload equals the key
Matching(pts, file_path) ==
    {i \in DOMAIN pts : Get(pts[i], "file_path") = file_path}

\* the pages client.scroll(scroll_filter) may return: at most ScrollLimit of
\* the matching points (points are paged in the order of their uuid ids)
ScrollPages(pts, file_path) ==
    LET m == Matching(pts, file_path) IN
    {page \in SUBSET m : Cardinality(page) = Min(ScrollLimit, Cardinality(m))}

RECURSIVE RemovePositions(_, _, _)
RemovePositions(pts, page, i) ==
    IF i > Len(pts) THEN <<>>
    ELSE (IF i \in page THEN <<>> ELSE <<pts[i]>>) \o RemovePositions(pts, page, i + 1)

\* QdrantStore.delete_by_file_path, given the page scroll returned
QdrantDeleteByFilePath(pts, page) ==
    IF page = {} THEN [points |-> pts, ret |-> 0]
    ELSE [points |-> RemovePositions(pts, page, 1), ret |-> Cardinality(page)]

\* QdrantStore.add_texts
QdrantAddTexts(pts, mds) == pts \o mds

\* QdrantStore.clean: delete_collection, then _ensure_collection
QdrantClean(pts) == [points |-> <<>>, ret |-> TRUE]

QAddTexts(n, ver, file_path) ==
    /\ Matching(points, file_path) = {}
    /\ Len(points) + n <= MaxPoints
    /\ points' = QdrantAddTexts(points, SpecMetadatas(n, ver, file_path))
    /\ last' = [op |-> "qdrant_add", key |-> file_path, n |-> n]
    /\ UNCHANGED <<storeVars, histVars, routeVars, concVars, collection, cfgVars>>

QDeleteByFilePath(file_path) ==
    \E page \in ScrollPages(points, file_path) :
        LET r == QdrantDeleteByFilePath(points, page) IN
        /\ points' = r.points
        /\ last' = [op |-> "qdrant_delete", key |-> file_path, ret |-> r.ret,
                    held |-> Cardinality(Matching(points, file_path))]
        /\ UNCHANGED <<storeVars, histVars, routeVars, concVars, collection, cfgVars>>

QClean ==
    LET r == QdrantClean(points) IN
    /\ points' = r.points
    /\ last' = [op |-> "qdrant_clean", ret |-> r.ret]
    /\ UNCHANGED <<storeVars, histVars, routeVars, concVars, collection, cfgVars>>

NextQdrant ==
    \/ \E n \in 1..MaxBatch, ver \in Versions, fp \in Keys : QAddTexts(n, ver, fp)
    \/ \E fp \in Keys : QDeleteByFilePath(fp)
    \/ QClean

SpecQdrant == Init /\ [][NextQdrant]_vars

\* ------------------------------------------------- oas_routes / FileStorage
\* the backend a request works on: get_rag_service builds a new service, and
\* with it a new store instance over the persisted files, for every request
RequestStore == FaissConstruct(StoreState)

\* chunks a later request finds in the index under a provenance key
IndexedUnder(file_path) ==
    IF provider = "faiss"
    THEN Len(DocsOfKey(LoadOrCreateIndex(diskFaiss, diskPkl), file_path))
    ELSE Cardinality(Matching(points, file_path))

Saved(n) == [state |-> "saved", endpoints |-> n]
Removed(n) == [state |-> "removed", endpoints |-> n]

\* FileStorage.clean_upload_directory
CleanUploadDirectory(fs) ==
    [fp \in Keys |-> IF fs[fp].state = "saved" THEN Removed(fs[fp].endpoints)
                     ELSE fs[fp]]

Respond(op, file_path, status) ==
    /\ last' = [op |-> op, key |-> file_path, status |-> status]
    /\ allOk' = (allOk /\ status = 200)

\* POST /oas/upload: save the file, parse it, store_api_spec
UploadApiSpec(file_path, n, ver, failAt) ==
    LET mds == SpecMetadatas(n, ver, file_path) IN
    /\ files[file_path].state = "new"
    /\ files' = [files EXCEPT ![file_path] = Saved(n)]
    /\ IF failAt = "parse"
       THEN /\ SetStore(RequestStore)
            /\ points' = points
            /\ Respond("upload", file_path, 500)
       ELSE IF provider = "faiss"
       THEN LET r == FaissAddTexts(RequestStore, mds, failAt) IN
            /\ n <= MaxEndpoints
            /\ Len(EndpointDocs(RequestStore.vs)) + n <= MaxDocs
            /\ SetStore(r.st)
            /\ points' = points
            /\ Respond("upload", file_path, IF r.raised THEN 500 ELSE 200)
       ELSE /\ failAt \in {"none", "embed"}
            /\ Len(points) + n <= MaxPoints
            /\ points' = IF failAt = "none" THEN QdrantAddTexts(points, mds)
                         ELSE points
            /\ UNCHANGED storeVars
            /\ Respond("upload", file_path, IF failAt = "none" THEN 200 ELSE 500)
    /\ UNCHANGED <<histVars, provider, concVars, collection, cfgVars>>

\* POST /oas/delete: index deletion, then FileStorage.delete_file
DeleteFile(file_path, failAt) ==
    /\ IF files[file_path].state # "saved"
       THEN /\ failAt = "none"
            /\ SetStore(RequestStore)
            /\ UNCHANGED <<points, files>>
            /\ Respond("delete", file_path, 404)
       ELSE /\ IF provider = "faiss"
               THEN /\ SetStore(FaissDeleteByFilePath(RequestStore, file_path,
                                                      failAt).st)
                    /\ points' = points
               ELSE /\ failAt \in {"none", "embed"}
                    /\ \E page \in ScrollPages(points, file_path) :
                          points' = IF failAt = "none"
                                    THEN QdrantDeleteByFilePath(points, page).points
                                    ELSE points
                    /\ UNCHANGED storeVars
            /\ files' = [files EXCEPT ![file_path] = Removed(@.endpoints)]
            /\ Respond("delete", file_path, 200)
    /\ UNCHANGED <<histVars, provider, concVars, collection, cfgVars>>

\* POST /oas/clean: clean the collection, then the upload directory
CleanRoute(failAt) ==
    /\ IF provider = "faiss"
       THEN LET r == FaissClean(RequestStore, failAt) IN
            /\ SetStore(r.st)
            /\ points' = points
            /\ files' = IF r.ret THEN CleanUploadDirectory(files) ELSE files
            /\ Respond("clean", "", IF r.ret THEN 200 ELSE 500)
       ELSE /\ failAt \in {"none", "embed"}
            /\ points' = IF failAt = "none" THEN QdrantClean(points).points
                         ELSE points
            /\ UNCHANGED storeVars
            /\ files' = IF failAt = "none" THEN CleanUploadDirectory(files)
                        ELSE files
            /\ Respond("clean", "", IF failAt = "none" THEN 200 ELSE 500)
    /\ UNCHANGED <<histVars, provider, concVars, collection, cfgVars>>

InitRoutes ==
    /\ vector_store = FreshIndex
    /\ metadata_map = <<>>
    /\ diskFaiss = NoFile
    /\ diskPkl = NoFile
    /\ diskMeta = NoFile
    /\ last = [op |-> "init"]
    /\ cleanRun = 0
    /\ gone = {}
    /\ points = <<>>
    /\ collection = <<>>
    /\ provider \in {"faiss", "qdrant"}
    /\ files = [fp \in Keys |-> NewFile]
    /\ allOk = TRUE
    /\ req = [p \in Procs |-> [op |-> "none"]]
    /\ pc = [p \in Procs |-> "idle"]
    /\ inst = [p \in Procs |-> NoInstance]
    /\ settings = DefaultSettings
    /\ vector_size = DefaultSettings.embedding_dimension

NextRoutes ==
    \/ \E fp \in Keys, n \in 1..MaxBatch, ver \in Versions,
          failAt \in FailPoints \cup {"parse"} : UploadApiSpec(fp, n, ver, failAt)
    \/ \E fp \in Keys, failAt \in FailPoints : DeleteFile(fp, failAt)
    \/ \E failAt \in FailPoints : CleanRoute(failAt)

SpecRoutes == InitRoutes /\ [][NextRoutes]_vars

\* the same requests when no parse, embedding or file operation fails
NextRoutesOk ==
    \/ \E fp \in Keys, n \in 1..MaxBatch, ver \in Versions :
          UploadApiSpec(fp, n, ver, "none")
    \/ \E fp \in Keys : DeleteFile(fp, "none")
    \/ CleanRoute("none")

SpecRoutesOk == InitRoutes /\ [][NextRoutesOk]_vars

\* ------------------------------------------ concurrent requests (local store)
\* Every request gets its own FAISSStore (get_rag_service), constructs it from
\* the index directory and, when it mutates, writes index.faiss, index.pkl and
\* metadata.json one after the other; nothing serialises two requests.
\* ivec is what the instance read from index.faiss, vs what it read from
\* index.pkl (each file stands for the documents it was written from).

\* the instance as a store value for the in-memory part of a call
InstState(p) == [vs |-> inst[p].vs, mm |-> inst[p].mm,
                 dF |-> diskFaiss, dP |-> diskPkl, dM |-> diskMeta]

\* FAISS.load_local reads index.faiss first
ReadFaiss(p) ==
    /\ pc[p] = "start"
    /\ IF diskFaiss.exists /\ diskPkl.exists
       THEN /\ inst' = [inst EXCEPT ![p].ivec = diskFaiss.data]
            /\ pc' = [pc EXCEPT ![p] = "read_faiss"]
       ELSE /\ inst' = [inst EXCEPT ![p].ivec = FreshIndex, ![p].vs = FreshIndex]
            /\ pc' = [pc EXCEPT ![p] = "read_index"]
    /\ UNCHANGED <<storeVars, last, histVars, points, routeVars, collection, req,
                   cfgVars>>

\* ... and index.pkl second
ReadPkl(p) ==
    /\ pc[p] = "read_faiss"
    /\ inst' = [inst EXCEPT ![p].vs = diskPkl.data]
    /\ pc' = [pc EXCEPT ![p] = "read_index"]
    /\ UNCHANGED <<storeVars, last, histVars, points, routeVars, collection, req,
                   cfgVars>>

\* _load_metadata; a request that only reads is served from this instance
ReadMetadata(p) ==
    /\ pc[p] = "read_index"
    /\ inst' = [inst EXCEPT ![p].mm = LoadMetadata(diskMeta)]
    /\ pc' = [pc EXCEPT ![p] = IF req[p].op = "read" THEN "done" ELSE "constructed"]
    /\ UNCHANGED <<storeVars, last, histVars, points, routeVars, collection, req,
                   cfgVars>>

\* the in-memory part of add_texts / delete_by_file_path
Mutated(p) ==
    IF req[p].op = "add"
    THEN FaissAddTexts(InstState(p), req[p].batch, "none").st
    ELSE FaissDeleteByFilePath(InstState(p), req[p].key, "none").st

\* delete_by_file_path of a key that is not in the instance's map returns 0
DeleteNothing(p) ==
    /\ pc[p] = "constructed"
    /\ req[p].op = "delete"
    /\ req[p].key \notin MapKeys(inst[p].mm)
    /\ pc' = [pc EXCEPT ![p] = "done"]
    /\ UNCHANGED <<storeVars, last, histVars, points, routeVars, collection, req, inst,
                   cfgVars>>

\* the in-memory change, then save_local writes index.faiss
WriteFaiss(p) ==
    /\ pc[p] = "constructed"
    /\ req[p].op = "add" \/ req[p].key \in MapKeys(inst[p].mm)
    /\ inst' = [inst EXCEPT ![p] = [ivec |-> Mutated(p).vs, vs |-> Mutated(p).vs,
                                    mm |-> Mutated(p).mm]]
    /\ diskFaiss' = File(Mutated(p).vs)
    /\ pc' = [pc EXCEPT ![p] = "wrote_faiss"]
    /\ UNCHANGED <<vector_store, metadata_map, diskPkl, diskMeta, last, histVars,
                   points, routeVars, collection, req, cfgVars>>

\* save_local writes index.pkl
WritePkl(p) ==
    /\ pc[p] = "wrote_faiss"
    /\ diskPkl' = File(inst[p].vs)
    /\ pc' = [pc EXCEPT ![p] = "wrote_pkl"]
    /\ UNCHANGED <<vector_store, metadata_map, diskFaiss, diskMeta, last, histVars,
                   points, routeVars, collection, req, inst, cfgVars>>

\* _save_metadata
WriteMetadata(p) ==
    /\ pc[p] = "wrote_pkl"
    /\ diskMeta' = File(inst[p].mm)
    /\ pc' = [pc EXCEPT ![p] = "done"]
    /\ UNCHANGED <<vector_store, metadata_map, diskFaiss, diskPkl, last, histVars,
                   points, routeVars, collection, req, inst, cfgVars>>

\* the index directory when the requests arrive: empty, or one specification
\* ingested under the first key
PersistedA == FaissAddTexts([vs |-> FreshIndex, mm |-> <<>>, dF |-> NoFile,
                             dP |-> NoFile, dM |-> NoFile],
                            SpecMetadatas(1, "3.0.0", "upload/a.json"), "none").st

\* the file name save_api_spec generates for the upload of request p
UploadName(p) == IF p = 1 THEN "upload/b.json" ELSE "upload/c.json"

Requests(p) ==
    {[op |-> "read"]}
    \cup {[op |-> "delete", key |-> "upload/a.json"]}
    \cup {[op |-> "add", key |-> UploadName(p),
           batch |-> SpecMetadatas(n, "3.0.0", UploadName(p))] :
            n \in 1..MaxEndpoints}

InitConc ==
    /\ \E st \in {PersistedA, FaissClean(PersistedA, "none").st} :
          /\ diskFaiss = st.dF
          /\ diskPkl = st.dP
          /\ diskMeta = st.dM
    /\ vector_store = FreshIndex
    /\ metadata_map = <<>>
    /\ last = [op |-> "init"]
    /\ cleanRun = 0
    /\ gone = {}
    /\ points = <<>>
    /\ collection = <<>>
    /\ provider = "faiss"
    /\ files = [fp \in Keys |-> NewFile]
    /\ allOk = TRUE
    /\ req \in [Procs -> UNION {Requests(p) : p \in Procs}]
    /\ \A p \in Procs : req[p] \in Requests(p)
    /\ pc = [p \in Procs |-> "start"]
    /\ inst = [p \in Procs |-> NoInstance]
    /\ settings = DefaultSettings
    /\ vector_size = DefaultSettings.embedding_dimension

NextConc ==
    \E p \in Procs :
        \/ ReadFaiss(p)
        \/ ReadPkl(p)
        \/ ReadMetadata(p)
        \/ DeleteNothing(p)
        \/ WriteFaiss(p)
        \/ WritePkl(p)
        \/ WriteMetadata(p)

SpecConc == InitConc /\ [][NextConc]_vars

\* ----------------------------------- the service over the configured backend
\* VectorStoreFactory.create_vector_store gives the service the store that
\* settings.vector_store_provider names; the calls then go to that store
NextBackends ==
    \/ provider = "faiss" /\ Next
    \/ provider = "qdrant" /\ NextQdrant

SpecBackends == InitRoutes /\ [][NextBackends]_vars

\* ------------------------------------------ /api routes over VectorStore
\* app/api/routes.py works on app/services/vector_store.py (VectorStore over
\* QdrantVectorService) and on the same upload directory.  All points of one
\* store_api_spec call share file_path and openapi_version, so the collection
\* is kept as one record per call with the number of its points.

\* limit of the one scroll call of get_openapi_versions
VersionsScrollLimit == 10000

\* endpoints of an uploaded specification: none, one, a whole scroll page
ApiBatchSizes == {0, 1, VersionsScrollLimit}

\* vector_service.create_point(embedding, payload, point_id): the point that
\* carries the payload (the method is called, but not defined, in the source)
CreatePoint(file_path, ver) == [file_path |-> file_path, openapi_version |-> ver]

RECURSIVE Total(_)
Total(coll) == IF coll = <<>> THEN 0 ELSE Head(coll).count + Total(Tail(coll))

\* VectorStore.store_api_spec: one point per endpoint, one upsert of all of
\* them (upsert_points does nothing for an empty list)
ApiStoreApiSpec(coll, n, ver, file_path) ==
    IF n = 0 THEN coll
    ELSE Append(coll, [file_path |-> CreatePoint(file_path, ver).file_path,
                       openapi_version |-> CreatePoint(file_path, ver).openapi_version,
                       count |-> n])

\* VectorStore.get_all_file_paths: [] when the collection is empty or when a
\* backend call raises
GetAllFilePaths(coll, scrollOk) ==
    IF scrollOk THEN {coll[i].file_path : i \in DOMAIN coll} ELSE {}

\* VectorStore.delete_embeddings_by_file_path (scroll limit = points_count)
ApiDeleteEmbeddings(coll, file_path) ==
    [coll |-> SelectSeq(coll, LAMBDA r : r.file_path # file_path),
     ret |-> Total(SelectSeq(coll, LAMBDA r : r.file_path = file_path))]

\* the records that have a point on the page scroll(limit) returns: the page
\* holds min(limit, points_count) points, in the order of their random ids
ScrolledRecords(coll, limit) ==
    LET size == Min(limit, Total(coll)) IN
    {S \in SUBSET DOMAIN coll :
        /\ Cardinality(S) <= size
        /\ size <= Total([i \in 1..Len(coll) |->
                            IF i \in S THEN coll[i] ELSE [coll[i] EXCEPT !.count = 0]])}

\* sorted(list(versions)) for the version strings of the model
VersionOrder == <<"2.0", "3.0.0">>

SortedVersions(S) == SelectSeq(VersionOrder, LAMBDA v : v \in S)

\* VectorStore.get_openapi_versions, S: the records on the scrolled page
GetOpenapiVersions(coll, S) ==
    SortedVersions({coll[i].openapi_version : i \in S} \ {None})

\* POST /api/upload: save the file, parse it, store_api_spec
ApiUpload(file_path, n, ver, failAt) ==
    /\ files[file_path].state = "new"
    /\ failAt = "embed" => n > 0
    /\ files' = [files EXCEPT ![file_path] = Saved(n)]
    /\ collection' = IF failAt = "none"
                     THEN ApiStoreApiSpec(collection, n, ver, file_path)
                     ELSE collection
    /\ last' = [op |-> "api_upload", key |-> file_path,
                status |-> IF failAt = "none" THEN 200 ELSE 500]
    /\ allOk' = (allOk /\ failAt = "none")
    /\ UNCHANGED <<storeVars, histVars, points, provider, concVars, cfgVars>>

\* POST /api/delete
ApiDeleteFile(file_path) ==
    /\ IF files[file_path].state # "saved"
       THEN /\ UNCHANGED <<collection, files>>
            /\ last' = [op |-> "api_delete", key |-> file_path, status |-> 404]
            /\ allOk' = FALSE
       ELSE /\ collection' = ApiDeleteEmbeddings(collection, file_path).coll
            /\ files' = [files EXCEPT ![file_path] = Removed(@.endpoints)]
            /\ last' = [op |-> "api_delete", key |-> file_path, status |-> 200]
            /\ allOk' = allOk
    /\ UNCHANGED <<storeVars, histVars, points, provider, concVars, cfgVars>>

\* POST /api/clean: file paths from the index, clean_collection, delete those
\* files; the whole upload directory only when no file path was found
ApiClean(scrollOk) ==
    LET file_paths == GetAllFilePaths(collection, scrollOk) IN
    /\ collection' = <<>>
    /\ files' = IF file_paths = {} THEN CleanUploadDirectory(files)
                ELSE [fp \in Keys |->
                        IF fp \in file_paths /\ files[fp].state = "saved"
                        THEN Removed(files[fp].endpoints) ELSE files[fp]]
    /\ last' = [op |-> "api_clean", status |-> 200,
                indexed |-> {collection[i].file_path : i \in DOMAIN collection}]
    /\ allOk' = allOk
    /\ UNCHANGED <<storeVars, histVars, points, provider, concVars, cfgVars>>

\* GET /api/openapi_versions
ApiGetOpenapiVersions ==
    /\ last.op # "api_versions"
    /\ \E S \in ScrolledRecords(collection, VersionsScrollLimit) :
          last' = [op |-> "api_versions",
                   versions |-> GetOpenapiVersions(collection, S)]
    /\ UNCHANGED <<storeVars, histVars, points, collection, routeVars, concVars,
                   cfgVars>>

NextApi ==
    \/ \E fp \in Keys, n \in ApiBatchSizes, ver \in Versions \cup {None},
          failAt \in {"none", "parse", "embed"} : ApiUpload(fp, n, ver, failAt)
    \/ \E fp \in Keys : ApiDeleteFile(fp)
    \/ \E scrollOk \in BOOLEAN : ApiClean(scrollOk)
    \/ ApiGetOpenapiVersions

SpecApi == Init /\ [][NextApi]_vars

\* ------------------------------------------------------- query answering
\* A response: the kind of answer, the number of sources returned with it and
\* the number of calls made to the language model.

\* (mutant) the language model is asked also when there are no sources
GenerateResponseAlwaysInvokes(sources) ==
    [answer |-> "llm", found |-> Len(sources), llm_calls |-> 1]

\* LangchainRAGService._generate_response
GenerateResponse(sources) ==
    IF sources = <<>>
    THEN [answer |-> "not_found", found |-> 0, llm_calls |-> 0]
    ELSE [answer |-> "llm", found |-> Len(sources), llm_calls |-> 1]

\* LangchainRAGService.search_api_by_version
SearchApiByVersionResponse(ranking, openapi_version, top_k) ==
    LET sources == SearchByVersionResult(ranking, openapi_version, top_k) IN
    IF sources = <<>> /\ openapi_version # None
    THEN [answer |-> "not_found_for_version", found |-> 0, llm_calls |-> 0]
    ELSE GenerateResponse(sources)

\* POST /api/search: VectorStore.search returns the top_k nearest points, each
\* with its endpoint payload; LLMService.generate_answer makes one completion
\* call
ApiSearchResponse(coll, top_k) ==
    LET search_results == Min(top_k, Total(coll)) IN
    IF search_results = 0
    THEN [answer |-> "not_found", found |-> 0, llm_calls |-> 0]
    ELSE [answer |-> "llm", found |-> search_results, llm_calls |-> 1]

SearchApiByVersion ==
    /\ last.op = "ask"
    /\ last.route = "oas"
    /\ last' = [op |-> "answer", route |-> "oas", version |-> last.version,
                top_k |-> last.top_k,
                response |-> SearchApiByVersionResponse(vector_store,
                                                        last.version, last.top_k)]
    /\ UNCHANGED <<storeVars, histVars, points, collection, routeVars, concVars,
                   cfgVars>>

ApiSearch ==
    /\ last.op = "ask"
    /\ last.route = "api"
    /\ last' = [op |-> "answer", route |-> "api", version |-> None,
                top_k |-> last.top_k,
                response |-> ApiSearchResponse(collection, last.top_k)]
    /\ UNCHANGED <<storeVars, histVars, points, collection, routeVars, concVars,
                   cfgVars>>

\* the requests: the index as the query ranks it, the /api collection, and
\* the request body
InitQuery ==
    /\ vector_store \in SeqsUpTo(DocPool, MaxCorpus) \ {<<>>}
    /\ metadata_map = <<>>
    /\ diskFaiss = NoFile
    /\ diskPkl = NoFile
    /\ diskMeta = NoFile
    /\ last \in {[op |-> "ask", route |-> "oas", version |-> v, top_k |-> k] :
                    v \in Versions \cup {None}, k \in 1..MaxK}
                \cup {[op |-> "ask", route |-> "api", version |-> None,
                       top_k |-> k] : k \in 1..MaxK}
    /\ cleanRun = 0
    /\ gone = {}
    /\ points = <<>>
    /\ collection \in {ApiStoreApiSpec(<<>>, n, "3.0.0", "upload/a.json") :
                          n \in ApiBatchSizes}
    /\ provider = "faiss"
    /\ files = [fp \in Keys |-> NewFile]
    /\ allOk = TRUE
    /\ req = [p \in Procs |-> [op |-> "none"]]
    /\ pc = [p \in Procs |-> "idle"]
    /\ inst = [p \in Procs |-> NoInstance]
    /\ settings = DefaultSettings
    /\ vector_size = DefaultSettings.embedding_dimension

NextQuery ==
    \/ SearchApiByVersion
    \/ ApiSearch

SpecQuery == InitQuery /\ [][NextQuery]_vars

\* ------------------------------------- the local store when a step can fail
\* The calls of LangchainRAGService on the local store, with the point at
\* which the embedding provider or a file write raises (FailPoints).  At most
\* one call of a behaviour fails: a failing step is taken only while allOk.

\* store_api_spec: the exception of add_texts reaches the caller
StoreApiSpecAt(n, ver, file_path, failAt) ==
    LET mds == SpecMetadatas(n, ver, file_path)
        r == FaissAddTexts(StoreState, mds, failAt)
    IN
    /\ Len(EndpointDocs(vector_store)) + n <= MaxDocs
    /\ Len(RebuildDocuments(metadata_map)) + n <= MaxDocs
    /\ SetStore(r.st)
    /\ last' = [op |-> "store_at", key |-> file_path, batch |-> mds,
                failAt |-> failAt, raised |-> r.raised,
                fresh |-> /\ DocsOfKey(vector_store, file_path) = <<>>
                          /\ DocsOfKey(diskFaiss.data, file_path) = <<>>
                          /\ DocsOfKey(diskPkl.data, file_path) = <<>>
                          /\ file_path \notin MapKeys(LoadMetadata(diskMeta))]
    /\ failAt # "none" => allOk
    /\ allOk' = (allOk /\ failAt = "none")
    /\ UNCHANGED <<histVars, points, provider, files, concVars, collection, cfgVars>>

\* delete_embeddings_by_file_path returns what delete_by_file_path returns;
\* failed: the call went past the early return and hit the failing step
DeleteEmbeddingsByFilePathAt(file_path, failAt) ==
    LET r == FaissDeleteByFilePath(StoreState, file_path, failAt) IN
    /\ SetStore(r.st)
    /\ last' = [op |-> "delete_at", key |-> file_path, failAt |-> failAt,
                failed |-> failAt # "none" /\ file_path \in MapKeys(metadata_map),
                others |-> [key \in Keys |-> Len(DocsOfKey(vector_store, key))],
                outcome |-> [error |-> FALSE, ret |-> r.ret]]
    /\ failAt # "none" => allOk
    /\ allOk' = (allOk /\ failAt = "none")
    /\ UNCHANGED <<histVars, points, provider, files, concVars, collection, cfgVars>>

\* clean_collection returns what clean returns
CleanCollectionAt(failAt) ==
    LET r == FaissClean(StoreState, failAt) IN
    /\ SetStore(r.st)
    /\ last' = [op |-> "clean_at", failAt |-> failAt, ret |-> r.ret]
    /\ failAt # "none" => allOk
    /\ allOk' = (allOk /\ failAt = "none")
    /\ UNCHANGED <<histVars, points, provider, files, concVars, collection, cfgVars>>

NextFaults ==
    \/ \E n \in 1..MaxEndpoints, ver \in Versions, fp \in Keys,
          failAt \in FailPoints : StoreApiSpecAt(n, ver, fp, failAt)
    \/ \E fp \in Keys, failAt \in FailPoints :
          DeleteEmbeddingsByFilePathAt(fp, failAt)
    \/ \E failAt \in FailPoints : CleanCollectionAt(failAt)
    \/ NewStore

SpecFaults == Init /\ [][NextFaults]_vars

\* ------------------------------------------------------------- LLMFactory
\* values a deployment (or a test) gives the provider setting and the model
\* and base-url settings of each provider
LlmProviderValues == {"openai", "deepseek", "siliconflow", "invalid"}

ModelValues(p) == {DefaultSettings[p \o "_model"], p \o "-m2"}

BaseUrlValues(p) == {DefaultSettings[p \o "_base_url"], "http://proxy/" \o p}

\* the ChatOpenAI client built from model_name and openai_api_base
ChatOpenAI(model_name, openai_api_base) ==
    [model_name |-> model_name, openai_api_base |-> openai_api_base]

NoClient == [model_name |-> None, openai_api_base |-> None]

\* (mutant) an unknown provider falls back to the deepseek client, as the
\* llm_model property of Settings does
CreateLlmFallsBack(s) ==
    IF s.llm_provider = "openai"
    THEN [raised |-> FALSE, llm |-> ChatOpenAI(s.openai_model, s.openai_base_url)]
    ELSE IF s.llm_provider = "siliconflow"
    THEN [raised |-> FALSE,
          llm |-> ChatOpenAI(s.siliconflow_model, s.siliconflow_base_url)]
    ELSE [raised |-> FALSE,
          llm |-> ChatOpenAI(s.deepseek_model, s.deepseek_base_url)]

\* LLMFactory.create_llm; raised: ValueError, no client was constructed
CreateLlm(s) ==
    IF s.llm_provider = "openai"
    THEN [raised |-> FALSE, llm |-> ChatOpenAI(s.openai_model, s.openai_base_url)]
    ELSE IF s.llm_provider = "deepseek"
    THEN [raised |-> FALSE,
          llm |-> ChatOpenAI(s.deepseek_model, s.deepseek_base_url)]
    ELSE IF s.llm_provider = "siliconflow"
    THEN [raised |-> FALSE,
          llm |-> ChatOpenAI(s.siliconflow_model, s.siliconflow_base_url)]
    ELSE [raised |-> TRUE, llm |-> NoClient]

\* a call of LLMFactory.create_llm()
CreateLlmCall ==
    /\ last.op # "create_llm"
    /\ LET r == CreateLlm(settings) IN
       last' = [op |-> "create_llm", raised |-> r.raised, llm |-> r.llm]
    /\ UNCHANGED <<storeVars, histVars, points, collection, routeVars, concVars,
                   cfgVars>>

\* settings.llm_provider = p (the settings object is module-level and mutable)
SetLlmProvider(p) ==
    /\ p # settings.llm_provider
    /\ settings' = [settings EXCEPT !.llm_provider = p]
    /\ last' = [op |-> "set_llm_provider"]
    /\ UNCHANGED <<storeVars, histVars, points, collection, routeVars, concVars,
                   vector_size>>

InitLlm ==
    /\ vector_store = FreshIndex
    /\ metadata_map = <<>>
    /\ diskFaiss = NoFile
    /\ diskPkl = NoFile
    /\ diskMeta = NoFile
    /\ last = [op |-> "init"]
    /\ cleanRun = 0
    /\ gone = {}
    /\ points = <<>>
    /\ collection = <<>>
    /\ provider = "faiss"
    /\ files = [fp \in Keys |-> NewFile]
    /\ allOk = TRUE
    /\ req = [p \in Procs |-> [op |-> "none"]]
    /\ pc = [p \in Procs |-> "idle"]
    /\ inst = [p \in Procs |-> NoInstance]
    /\ \E lp \in LlmProviderValues,
          om \in ModelValues("openai"), ou \in BaseUrlValues("openai"),
          dm \in ModelValues("deepseek"), du \in BaseUrlValues("deepseek"),
          sm \in ModelValues("siliconflow"), su \in BaseUrlValues("siliconflow") :
          settings = [DefaultSettings EXCEPT
                         !.llm_provider = lp,
                         !.openai_model = om, !.openai_base_url = ou,
                         !.deepseek_model = dm, !.deepseek_base_url = du,
                         !.siliconflow_model = sm, !.siliconflow_base_url = su]
    /\ vector_size = DefaultSettings.embedding_dimension

NextLlm ==
    \/ CreateLlmCall
    \/ \E p \in LlmProviderValues : SetLlmProvider(p)

SpecLlm == InitLlm /\ [][NextLlm]_vars

\* --------------------------------- the local store when the process stops
\* A mutating call writes index.faiss, index.pkl and metadata.json one after
\* the other, each by truncating the file and writing it anew.  A process
\* that stops during the call leaves the writes made so far, and the file it
\* was writing (if any) cut short.  The next process constructs its store from
\* what is on disk.

Write(file, content) == [file |-> file, content |-> content]

\* the file writes of _save_index (save_local) followed by _save_metadata
SaveWrites(idx, mm) ==
    <<Write("faiss", File(idx)), Write("pkl", File(idx)), Write("meta", File(mm))>>

\* the file writes of add_texts, in order
AddTextsWrites(st, mds) ==
    SaveWrites(st.vs \o AddedDocs(mds), MapAppendAll(st.mm, mds))

\* the file writes of clean, in order
CleanWrites(st) == SaveWrites(FreshIndex, <<>>)

\* the file writes of delete_by_file_path, in order: the rebuilt index and the
\* map; with no surviving document those of clean() and the map once more
DeleteWrites(st, file_path) ==
    IF file_path \notin MapKeys(st.mm) THEN <<>>
    ELSE LET mm1 == MapDelete(st.mm, file_path)
             documents == RebuildDocuments(mm1)
         IN IF documents # <<>> THEN SaveWrites(documents, mm1)
            ELSE CleanWrites(st) \o <<Write("meta", File(mm1))>>

WriteFile(st, w) ==
    IF w.file = "faiss" THEN [st EXCEPT !.dF = w.content]
    ELSE IF w.file = "pkl" THEN [st EXCEPT !.dP = w.content]
    ELSE [st EXCEPT !.dM = w.content]

RECURSIVE ApplyWrites(_, _)
ApplyWrites(st, writes) ==
    IF writes = <<>> THEN st
    ELSE ApplyWrites(WriteFile(st, Head(writes)), Tail(writes))

\* the files after a call that stopped when k of its writes were complete;
\* torn: it stopped while making the next write
Stopped(st, writes, k, torn) ==
    LET done == ApplyWrites(st, SubSeq(writes, 1, k)) IN
    IF torn THEN WriteFile(done, Write(writes[k + 1].file, Truncated)) ELSE done

Disk(st) == <<st.dF, st.dP, st.dM>>

\* the process stops in a call whose file writes are `writes`; a new process
\* constructs a FAISSStore over the index directory
StopAndRestart(op, file_path, writes, k, torn) ==
    LET st == Stopped(StoreState, writes, k, torn) IN
    /\ allOk
    /\ k \in 0..Len(writes)
    /\ torn => k < Len(writes)
    /\ SetStore(FaissConstruct(st))
    /\ last' = [op |-> op, key |-> file_path, k |-> k, torn |-> torn,
                pre |-> Disk(StoreState),
                post |-> Disk(ApplyWrites(StoreState, writes))]
    /\ allOk' = FALSE
    /\ UNCHANGED <<histVars, points, provider, files, concVars, collection,
                   cfgVars>>

StopInAddTexts(n, ver, file_path, k, torn) ==
    /\ Len(EndpointDocs(vector_store)) + n <= MaxDocs
    /\ StopAndRestart("stop_add", file_path,
                      AddTextsWrites(StoreState, SpecMetadatas(n, ver, file_path)),
                      k, torn)

StopInDelete(file_path, k, torn) ==
    /\ file_path \in MapKeys(metadata_map)
    /\ StopAndRestart("stop_delete", file_path,
                      DeleteWrites(StoreState, file_path), k, torn)

StopInClean(k, torn) ==
    StopAndRestart("stop_clean", NoPath, CleanWrites(StoreState), k, torn)

NextCrash ==
    \/ \E n \in 1..MaxEndpoints, ver \in Versions, fp \in Keys :
          StoreApiSpecAt(n, ver, fp, "none")
    \/ \E fp \in Keys : DeleteEmbeddingsByFilePathAt(fp, "none")
    \/ CleanCollectionAt("none")
    \/ NewStore
    \/ \E n \in 1..MaxEndpoints, ver \in Versions, fp \in Keys, k \in 0..3,
          torn \in BOOLEAN : StopInAddTexts(n, ver, fp, k, torn)
    \/ \E fp \in Keys, k \in 0..4, torn \in BOOLEAN : StopInDelete(fp, k, torn)
    \/ \E k \in 0..3, torn \in BOOLEAN : StopInClean(k, torn)

SpecCrash == Init /\ [][NextCrash]_vars

\* ------------------------------------------- the delete request, step by step
\* POST /oas/delete and POST /api/delete: the existence check, the index
\* deletion and FileStorage.delete_file follow one another in the handler.
\* The handlers are coroutines without an await, so one request is served at
\* a time; req[p] is the request being served and pc[p] its position.

Idle == \A p \in Procs : pc[p] = "idle"

\* the request arrives; get_rag_service / get_vector_store build the service
DeleteRequest(p, route, file_name) ==
    /\ Idle
    /\ req' = [req EXCEPT ![p] = [op |-> "delete_file", route |-> route,
                                  key |-> file_name, deleted |-> 0]]
    /\ pc' = [pc EXCEPT ![p] = "received"]
    /\ IF route = "oas" /\ provider = "faiss"
       THEN SetStore(RequestStore) ELSE UNCHANGED storeVars
    /\ UNCHANGED <<last, histVars, points, collection, routeVars, inst, cfgVars>>

\* (mutant) the file is removed as soon as it is found, before the index
\* deletion
DeleteCheckRemovesFile(p) ==
    /\ pc[p] = "received"
    /\ IF files[req[p].key].state # "saved"
       THEN /\ pc' = [pc EXCEPT ![p] = "idle"]
            /\ last' = [op |-> "delete_file", key |-> req[p].key,
                        status |-> 404, deleted |-> 0]
            /\ allOk' = FALSE
            /\ files' = files
       ELSE /\ pc' = [pc EXCEPT ![p] = "exists"]
            /\ files' = [files EXCEPT ![req[p].key] = Removed(@.endpoints)]
            /\ UNCHANGED <<last, allOk>>
    /\ UNCHANGED <<storeVars, histVars, points, collection, provider, req, inst,
                   cfgVars>>

\* if not os.path.exists(file_path): raise HTTPException(404)
DeleteCheckExists(p) ==
    /\ pc[p] = "received"
    /\ IF files[req[p].key].state # "saved"
       THEN /\ pc' = [pc EXCEPT ![p] = "idle"]
            /\ last' = [op |-> "delete_file", key |-> req[p].key,
                        status |-> 404, deleted |-> 0]
            /\ allOk' = FALSE
       ELSE /\ pc' = [pc EXCEPT ![p] = "exists"]
            /\ UNCHANGED <<last, allOk>>
    /\ UNCHANGED <<storeVars, histVars, points, collection, provider, files,
                   req, inst, cfgVars>>

\* deleted_embeddings = delete_embeddings_by_file_path(file_path); every
\* backend catches its exceptions and returns a number
DeleteIndexEntries(p) ==
    /\ pc[p] = "exists"
    /\ pc' = [pc EXCEPT ![p] = "index_deleted"]
    /\ IF req[p].route = "api"
       THEN LET r == ApiDeleteEmbeddings(collection, req[p].key) IN
            /\ collection' = r.coll
            /\ req' = [req EXCEPT ![p].deleted = r.ret]
            /\ UNCHANGED <<storeVars, points>>
       ELSE IF provider = "faiss"
       THEN LET r == FaissDeleteByFilePath(StoreState, req[p].key, "none") IN
            /\ SetStore(r.st)
            /\ req' = [req EXCEPT ![p].deleted = r.ret]
            /\ UNCHANGED <<points, collection>>
       ELSE \E page \in ScrollPages(points, req[p].key) :
               LET r == QdrantDeleteByFilePath(points, page) IN
               /\ points' = r.points
               /\ req' = [req EXCEPT ![p].deleted = r.ret]
               /\ UNCHANGED <<storeVars, collection>>
    /\ UNCHANGED <<last, histVars, routeVars, inst, cfgVars>>

\* file_deleted = file_storage.delete_file(file_path); 500 when it is False
DeleteDiskFile(p, removed) ==
    /\ pc[p] = "index_deleted"
    /\ pc' = [pc EXCEPT ![p] = "idle"]
    /\ removed => files[req[p].key].state = "saved"
    /\ files' = IF removed
                THEN [files EXCEPT ![req[p].key] = Removed(@.endpoints)]
                ELSE files
    /\ last' = [op |-> "delete_file", key |-> req[p].key,
                status |-> IF removed THEN 200 ELSE 500,
                deleted |-> req[p].deleted]
    /\ allOk' = (allOk /\ removed)
    /\ UNCHANGED <<storeVars, histVars, points, collection, provider, req, inst,
                   cfgVars>>

NextDelete ==
    \/ Idle /\ \E fp \in Keys, n \in 1..MaxEndpoints :
                  UploadApiSpec(fp, n, "3.0.0", "none")
    \/ Idle /\ \E fp \in Keys : ApiUpload(fp, 1, "3.0.0", "none")
    \/ \E p \in Procs, route \in {"oas", "api"}, fp \in Keys :
          DeleteRequest(p, route, fp)
    \/ \E p \in Procs : DeleteCheckExists(p)
    \/ \E p \in Procs : DeleteIndexEntries(p)
    \/ \E p \in Procs, removed \in BOOLEAN : DeleteDiskFile(p, removed)

SpecDelete == InitRoutes /\ [][NextDelete]_vars

\* ------------------------------ one store instance, every chunk with a key
\* The calls of the service on one FAISSStore instance when every ingested
\* specification carries a file_path and no step fails.
NextKeyed ==
    \/ \E n \in 1..MaxEndpoints, ver \in Versions, fp \in Keys :
          StoreApiSpecAt(n, ver, fp, "none")
    \/ \E fp \in Keys : DeleteEmbeddingsByFilePathAt(fp, "none")
    \/ CleanCollectionAt("none")

SpecKeyed == Init /\ [][NextKeyed]_vars

\* --------------------------------------- ingest into the Qdrant collection
\* LangchainRAGService.store_api_spec builds one (text, metadata) pair per
\* endpoint, in endpoint order, and calls add_texts of the store once.
\* QdrantStore.add_texts passes the lists to QdrantVectorStore.add_texts
\* without a batch_size, which embeds and upserts them batch by batch.  The
\* handler does not yield between the batches, so the requests of one process
\* are served one after the other.

\* batch_size of QdrantVectorStore.add_texts when none is given
UpsertBatchSize == 64

\* endpoints of an ingested specification: one, a full batch, one more
IngestSizes == {1, UpsertBatchSize, UpsertBatchSize + 1}

\* the calls of add_texts made for one store_api_spec: the (texts, metadatas)
\* lists each call is given
StoreApiSpecCalls(n, ver, file_path) == <<SpecMetadatas(n, ver, file_path)>>

\* the batches one add_texts call upserts, in order
RECURSIVE Batches(_)
Batches(mds) ==
    IF mds = <<>> THEN <<>>
    ELSE <<Take(mds, UpsertBatchSize)>> \o
         Batches(SubSeq(mds, Min(UpsertBatchSize, Len(mds)) + 1, Len(mds)))

\* POST /oas/upload on the Qdrant store: the file is saved, store_api_spec
\* calls add_texts
IngestStart(p, n, ver, file_path) ==
    /\ Idle
    /\ files[file_path].state = "new"
    /\ files' = [files EXCEPT ![file_path] = Saved(n)]
    /\ req' = [req EXCEPT ![p] = [op |-> "ingest", key |-> file_path,
                                  calls |-> Len(StoreApiSpecCalls(n, ver, file_path)),
                                  n |-> n, ver |-> ver, upserts |-> 0]]
    /\ pc' = [pc EXCEPT ![p] = "adding"]
    /\ UNCHANGED <<storeVars, last, histVars, points, collection, provider,
                   allOk, inst, cfgVars>>

\* one batch is embedded and upserted; ok = FALSE: the embedding provider or
\* the upsert raises, and the exception ends the request with status 500
UpsertBatch(p, ok) ==
    LET batches == Batches(StoreApiSpecCalls(req[p].n, req[p].ver, req[p].key)[1])
        next == req[p].upserts + 1
    IN
    /\ pc[p] = "adding"
    /\ points' = IF ok THEN QdrantAddTexts(points, batches[next]) ELSE points
    /\ req' = [req EXCEPT ![p].upserts = IF ok THEN next ELSE @]
    /\ pc' = [pc EXCEPT ![p] = IF ok /\ next < Len(batches) THEN "adding"
                               ELSE "idle"]
    /\ IF ok /\ next < Len(batches)
       THEN UNCHANGED <<last, allOk>>
       ELSE /\ last' = [op |-> "ingest", key |-> req[p].key,
                        status |-> IF ok THEN 200 ELSE 500]
            /\ allOk' = (allOk /\ ok)
    /\ UNCHANGED <<storeVars, histVars, collection, provider, files, inst,
                   cfgVars>>

\* a later search request on the collection: the number of chunks of each
\* specification among the top_k nearest points (all of them when top_k is
\* the size of the collection)
QdrantSearch ==
    /\ Idle
    /\ last.op # "qdrant_search"
    /\ last' = [op |-> "qdrant_search",
                found |-> [fp \in Keys |-> Cardinality(Matching(points, fp))]]
    /\ UNCHANGED <<storeVars, histVars, points, collection, routeVars, concVars,
                   cfgVars>>

InitIngest ==
    /\ InitRoutes
    /\ provider = "qdrant"

NextIngest ==
    \/ \E p \in Procs, n \in IngestSizes, ver \in Versions, fp \in Keys :
          IngestStart(p, n, ver, fp)
    \/ \E p \in Procs, ok \in BOOLEAN : UpsertBatch(p, ok)
    \/ QdrantSearch

SpecIngest == InitIngest /\ [][NextIngest]_vars

\* ------------------------------------------------ the text of an endpoint
\* _prepare_endpoint_text of LangchainRAGService ("rag") and of VectorStore
\* ("api").  text_parts is kept as a sequence of [section, line]: line is the
\* string the code appends, section the block of the code that appended it.
\* The text is the lines joined with "\n".  (The labels of the code are
\* Chinese words; the model writes them in English.)

Part(section, line) == [section |-> section, line |-> line]

RECURSIVE Join(_, _)
Join(strs, sep) ==
    IF strs = <<>> THEN ""
    ELSE IF Len(strs) = 1 THEN strs[1]
    ELSE strs[1] \o sep \o Join(Tail(strs), sep)

\* dict.get(key, "") of a parameter or response object
GetOr(d, key, default) == IF key \in DOMAIN d THEN d[key] ELSE default

\* json.dumps of a schema or of a request body
JsonDumps(x) == "{" \o x \o "}"

\* the lines of the parameters block
ParameterParts(variant, parameters) ==
    IF parameters = <<>> THEN <<>>
    ELSE IF variant = "rag"
    THEN <<Part("parameters", "parameters:")>> \o
         [i \in DOMAIN parameters |->
            Part("parameters",
                 "- " \o GetOr(parameters[i], "name", "") \o " ("
                 \o GetOr(parameters[i], "in", "") \o ", "
                 \o (IF GetOr(parameters[i], "required", "false") = "true"
                     THEN "required" ELSE "optional")
                 \o "): " \o GetOr(parameters[i], "description", ""))]
    ELSE LET named == SelectSeq(parameters, LAMBDA q : "name" \in DOMAIN q)
             params_str == Join([i \in DOMAIN named |->
                                    "- " \o named[i].name \o ": "
                                    \o GetOr(named[i], "description", "")], "\n")
         IN IF params_str # "" THEN <<Part("parameters", "parameters:\n" \o params_str)>>
            ELSE <<>>

\* the lines of the request-body block (request_body: the media types of its
\* content, each with its schema, "" for none)
RequestBodyParts(variant, request_body) ==
    IF request_body = <<>> THEN <<>>
    ELSE IF variant = "rag"
    THEN <<Part("request_body", "request body:")>> \o
         Flatten([i \in DOMAIN request_body |->
            <<Part("request_body", "- media type: " \o request_body[i].media_type)>>
            \o (IF request_body[i].schema # ""
                THEN <<Part("request_body",
                            "  schema: " \o JsonDumps(request_body[i].schema))>>
                ELSE <<>>)])
    ELSE <<Part("request_body", "request body:"),
           Part("request_body",
                JsonDumps(Join([i \in DOMAIN request_body |->
                                   request_body[i].media_type \o ": "
                                   \o JsonDumps(request_body[i].schema)], ", ")))>>

\* the lines of the responses block
ResponseParts(variant, responses) ==
    IF responses = <<>> THEN <<>>
    ELSE <<Part("responses", "responses:")>> \o
         [i \in DOMAIN responses |->
            Part("responses",
                 (IF variant = "rag" THEN "- status " ELSE "- ")
                 \o responses[i].status \o ": "
                 \o GetOr(responses[i], "description", ""))]

\* (mutant) the tags are appended before the description
TextPartsTagsFirst(variant, endpoint) ==
    <<Part("path", "path: " \o endpoint.path),
      Part("method", "method: " \o endpoint.method)>>
    \o (IF endpoint.summary # ""
        THEN <<Part("summary", "summary: " \o endpoint.summary)>> ELSE <<>>)
    \o (IF endpoint.tags # <<>>
        THEN <<Part("tags", "tags: " \o Join(endpoint.tags, ", "))>> ELSE <<>>)
    \o (IF endpoint.description # ""
        THEN <<Part("description", "description: " \o endpoint.description)>>
        ELSE <<>>)
    \o ParameterParts(variant, endpoint.parameters)
    \o RequestBodyParts(variant, endpoint.request_body)
    \o ResponseParts(variant, endpoint.responses)

\* text_parts of _prepare_endpoint_text
TextParts(variant, endpoint) ==
    <<Part("path", "path: " \o endpoint.path),
      Part("method", "method: " \o endpoint.method)>>
    \o (IF endpoint.summary # ""
        THEN <<Part("summary", "summary: " \o endpoint.summary)>> ELSE <<>>)
    \o (IF endpoint.description # ""
        THEN <<Part("description", "description: " \o endpoint.description)>>
        ELSE <<>>)
    \o (IF endpoint.tags # <<>>
        THEN <<Part("tags", "tags: " \o Join(endpoint.tags, ", "))>> ELSE <<>>)
    \o ParameterParts(variant, endpoint.parameters)
    \o RequestBodyParts(variant, endpoint.request_body)
    \o ResponseParts(variant, endpoint.responses)

\* "\n".join(text_parts)
EndpointText(variant, endpoint) ==
    LET parts == TextParts(variant, endpoint) IN
    Join([i \in DOMAIN parts |-> parts[i].line], "\n")

\* endpoints as the parser hands them over: path and method always, every
\* other field possibly empty
EndpointPool ==
    [path : {"/pets"}, method : {"GET"},
     summary : {"", "List pets"},
     description : {"", "Returns all pets"},
     tags : {<<>>, <<"pets", "store">>},
     parameters : {<<>>,
                   <<[name |-> "id", in |-> "path", required |-> "true",
                      description |-> "pet id"]>>,
                   <<[in |-> "query"]>>},
     request_body : {<<>>,
                     <<[media_type |-> "application/json", schema |-> "object"]>>,
                     <<[media_type |-> "text/plain", schema |-> ""]>>},
     responses : {<<>>,
                  <<[status |-> "200", description |-> "ok"], [status |-> "404"]>>}]

\* store_api_spec renders the text of an endpoint
PrepareText ==
    /\ last.op = "endpoint"
    /\ last' = [op |-> "text", variant |-> last.variant,
                endpoint |-> last.endpoint,
                parts |-> TextParts(last.variant, last.endpoint),
                text |-> EndpointText(last.variant, last.endpoint)]
    /\ UNCHANGED <<storeVars, histVars, points, collection, routeVars, concVars,
                   cfgVars>>

\* the same endpoint is rendered again (the same file is ingested again)
PrepareTextAgain ==
    /\ last.op = "text"
    /\ last' = [op |-> "text_again", variant |-> last.variant,
                endpoint |-> last.endpoint, parts |-> last.parts,
                text |-> last.text,
                again |-> EndpointText(last.variant, last.endpoint)]
    /\ UNCHANGED <<storeVars, histVars, points, collection, routeVars, concVars,
                   cfgVars>>

InitRender ==
    /\ vector_store = FreshIndex
    /\ metadata_map = <<>>
    /\ diskFaiss = NoFile
    /\ diskPkl = NoFile
    /\ diskMeta = NoFile
    /\ last \in {[op |-> "endpoint", variant |-> v, endpoint |-> e] :
                    v \in {"rag", "api"}, e \in EndpointPool}
    /\ cleanRun = 0
    /\ gone = {}
    /\ points = <<>>
    /\ collection = <<>>
    /\ provider = "faiss"
    /\ files = [fp \in Keys |-> NewFile]
    /\ allOk = TRUE
    /\ req = [p \in Procs |-> [op |-> "none"]]
    /\ pc = [p \in Procs |-> "idle"]
    /\ inst = [p \in Procs |-> NoInstance]
    /\ settings = DefaultSettings
    /\ vector_size = DefaultSettings.embedding_dimension

NextRender ==
    \/ PrepareText
    \/ PrepareTextAgain

SpecRender == InitRender /\ [][NextRender]_vars

\* ------------------------------- the vector size of the Qdrant collection
\* vector_size is vectors_config.size of the collection, NoCollection while
\* the collection does not exist.  Every request constructs a QdrantStore,
\* whose __init__ calls _ensure_collection.

NoCollection == 0

EmbeddingProviders == {"local", "openai", "siliconflow"}

\* values of settings.embedding_dimension a deployment may be started with
DimensionValues == {DefaultSettings.embedding_dimension, 1536}

\* EmbeddingService.__init__: the dimension of the vectors of the configured
\* embedding provider
EmbeddingDimension(s) ==
    IF s.embedding_provider = "local" THEN s.embedding_dimension
    ELSE IF s.embedding_provider = "openai" THEN 1536
    ELSE 1024

\* QdrantStore._ensure_collection
EnsureCollection(size, s) ==
    IF size = NoCollection THEN s.embedding_dimension ELSE size

\* QdrantStore.clean: delete_collection, then _ensure_collection
CleanedCollection(size, s) == EnsureCollection(NoCollection, s)

\* an upsert is accepted when the vectors have the size of the collection
Accepts(size, s) == EmbeddingDimension(s) = size

DimAddTexts(n, ver, file_path) ==
    /\ Len(points) + n <= MaxDocs
    /\ vector_size' = EnsureCollection(vector_size, settings)
    /\ points' = IF Accepts(vector_size', settings)
                 THEN QdrantAddTexts(points, SpecMetadatas(n, ver, file_path))
                 ELSE points
    /\ last' = [op |-> "dim_add", key |-> file_path,
                accepted |-> Accepts(vector_size', settings)]
    /\ UNCHANGED <<storeVars, histVars, collection, routeVars, concVars, settings>>

DimSimilaritySearch ==
    /\ last.op # "dim_search"
    /\ vector_size' = EnsureCollection(vector_size, settings)
    /\ last' = [op |-> "dim_search"]
    /\ UNCHANGED <<storeVars, histVars, points, collection, routeVars, concVars,
                   settings>>

DimDeleteByFilePath(file_path) ==
    /\ vector_size' = EnsureCollection(vector_size, settings)
    /\ \E page \in ScrollPages(points, file_path) :
          points' = QdrantDeleteByFilePath(points, page).points
    /\ last' = [op |-> "dim_delete", key |-> file_path]
    /\ UNCHANGED <<storeVars, histVars, collection, routeVars, concVars, settings>>

DimClean ==
    /\ vector_size' = CleanedCollection(EnsureCollection(vector_size, settings),
                                        settings)
    /\ points' = QdrantClean(points).points
    /\ last' = [op |-> "dim_clean"]
    /\ UNCHANGED <<storeVars, histVars, collection, routeVars, concVars, settings>>

\* the service is restarted with another embedding configuration
Reconfigure(embedding_provider, embedding_dimension) ==
    /\ settings' = [settings EXCEPT !.embedding_provider = embedding_provider,
                                    !.embedding_dimension = embedding_dimension]
    /\ settings' # settings
    /\ last' = [op |-> "reconfigure"]
    /\ UNCHANGED <<storeVars, histVars, points, collection, routeVars, concVars,
                   vector_size>>

InitDimension ==
    /\ vector_store = FreshIndex
    /\ metadata_map = <<>>
    /\ diskFaiss = NoFile
    /\ diskPkl = NoFile
    /\ diskMeta = NoFile
    /\ last = [op |-> "init"]
    /\ cleanRun = 0
    /\ gone = {}
    /\ points = <<>>
    /\ collection = <<>>
    /\ provider = "qdrant"
    /\ files = [fp \in Keys |-> NewFile]
    /\ allOk = TRUE
    /\ req = [p \in Procs |-> [op |-> "none"]]
    /\ pc = [p \in Procs |-> "idle"]
    /\ inst = [p \in Procs |-> NoInstance]
    /\ settings = DefaultSettings
    /\ vector_size = NoCollection

NextDimension ==
    \/ \E n \in 1..MaxEndpoints, fp \in Keys : DimAddTexts(n, "3.0.0", fp)
    \/ DimSimilaritySearch
    \/ \E fp \in Keys : DimDeleteByFilePath(fp)
    \/ DimClean
    \/ \E ep \in EmbeddingProviders, d \in DimensionValues : Reconfigure(ep, d)

SpecDimension == InitDimension /\ [][NextDimension]_vars

\* ================================================================ claims

\* C1: on the local store, delete_by_file_path(key) called while the index
\* holds n > 0 chunks ingested under key returns n, leaves no chunk with that
\* file_path in the index and removes key from metadata_map; no later search
\* returns a chunk of a deleted key.
C1_DeleteCompleteness ==
    /\ (last.op = "delete" /\ last.held > 0) =>
          /\ last.ret = last.held
          /\ DocsOfKey(vector_store, last.key) = <<>>
          /\ last.key \notin MapKeys(metadata_map)
    /\ last.op = "search" =>
          \A i \in DOMAIN last.sources :
              Get(last.sources[i].metadata, "file_path") \notin gone

C1_Witness ==
    /\ last.op = "delete"
    /\ last.held = 2
    /\ last.ret = 2
    /\ EndpointDocs(vector_store) # <<>>

\* C6: after store_api_spec ingests n endpoints into an empty index, an
\* unfiltered query with top_k >= n returns all n endpoint chunks.
C6_AllEndpointsRetrievable ==
    (last.op = "search" /\ last.version = None /\ last.ingested > 0
        /\ last.top_k >= last.ingested)
    => Len(last.sources) = last.ingested

\* C7: every clean() leaves an index without endpoint chunks and an empty
\* provenance map, in memory and on disk, also when it follows another
\* clean(); a store_api_spec after it makes exactly its own chunks searchable,
\* as on a fresh index.
C7_ResetIdempotent ==
    /\ last.op = "clean" =>
          /\ last.ret
          /\ vector_store = FreshIndex
          /\ metadata_map = <<>>
          /\ diskFaiss = File(FreshIndex) /\ diskPkl = File(FreshIndex)
          /\ diskMeta = File(<<>>)
    /\ (last.op = "store" /\ last.cleans > 0) =>
          /\ vector_store = FreshIndex \o AddedDocs(last.batch)
          /\ RebuildDocuments(metadata_map) =
                 DocsOfKey(AddedDocs(last.batch), last.key)
          /\ LoadOrCreateIndex(diskFaiss, diskPkl) = vector_store
          /\ LoadMetadata(diskMeta) = metadata_map

C7_Witness ==
    /\ last.op = "store"
    /\ last.cleans = 2
    /\ last.key \in Keys
    /\ Len(EndpointDocs(vector_store)) = 2

\* C4: a filter given to similarity_search is never silently ignored: every
\* returned chunk satisfies every condition of filter.must, and a filter the
\* matcher cannot interpret yields no results.
Interpretable(filter) ==
    /\ "must" \in DOMAIN filter
    /\ filter.must # <<>>
    /\ \A i \in DOMAIN filter.must :
          /\ "key" \in DOMAIN filter.must[i]
          /\ "match" \in DOMAIN filter.must[i]
          /\ "value" \in DOMAIN filter.must[i].match

Satisfies(metadata, filter) ==
    \A i \in DOMAIN filter.must :
        Get(metadata, filter.must[i].key) = filter.must[i].match.value

C4_FilterNeverIgnored ==
    (last.op = "similarity_search" /\ last.filter # NoFilter) =>
        IF Interpretable(last.filter)
        THEN \A i \in DOMAIN last.docs :
                 Satisfies(last.docs[i].metadata, last.filter)
        ELSE last.docs = <<>>

\* C5: a filtered search with result size k takes the 3k nearest chunks and
\* returns those of them that match the filter, cut to the first k in rank
\* order; when fewer than k of them match, all of those are returned.
C5_FilterBeforeTruncate ==
    (last.op = "similarity_search" /\ last.filter # NoFilter /\ ~last.raised) =>
        last.docs =
            Take(SelectSeq(Take(vector_store, 3 * last.k),
                           LAMBDA d : MatchesFilter(d.metadata, last.filter) = "True"),
                 last.k)

C5_Witness ==
    /\ last.op = "similarity_search"
    /\ last.k = 2
    /\ Len(vector_store) >= 3
    /\ MatchesFilter(vector_store[1].metadata, last.filter) = "False"
    /\ MatchesFilter(vector_store[2].metadata, last.filter) = "False"
    /\ MatchesFilter(vector_store[3].metadata, last.filter) = "True"
    /\ last.docs = <<vector_store[3]>>

\* C2: on the Qdrant store, delete_by_file_path(key) removes every point whose
\* file_path payload is key and returns their number, however many there are.
C2_QdrantDeleteAll ==
    last.op = "qdrant_delete" =>
        /\ last.ret = last.held
        /\ Matching(points, last.key) = {}

\* C3: once the artifact file of a provenance key has been removed from the
\* upload directory, the index holds no chunk under that key, also when the
\* backend's index deletion failed internally.
C3_NoChunksOfRemovedFile ==
    \A fp \in Keys : files[fp].state = "removed" => IndexedUnder(fp) = 0

\* C8: after any sequence of requests that all completed successfully, every
\* chunk with a file_path belongs to a file in the upload directory, and
\* every file in the upload directory has one chunk per endpoint.
C8_IndexMatchesUploadDirectory ==
    allOk =>
        \A fp \in Keys :
            /\ IndexedUnder(fp) > 0 => files[fp].state = "saved"
            /\ files[fp].state = "saved" => IndexedUnder(fp) = files[fp].endpoints

\* C9: when two concurrent mutating requests on the local store have both
\* completed, the persisted index and provenance map contain the effect of
\* each of them (no lost update).
PersistedIndex == LoadOrCreateIndex(diskFaiss, diskPkl)

EffectPersisted(r) ==
    IF r.op = "add"
    THEN /\ DocsOfKey(PersistedIndex, r.key) = AddedDocs(r.batch)
         /\ r.key \in MapKeys(LoadMetadata(diskMeta))
    ELSE /\ DocsOfKey(PersistedIndex, r.key) = <<>>
         /\ r.key \notin MapKeys(LoadMetadata(diskMeta))

C9_NoLostUpdate ==
    (\A p \in Procs : pc[p] = "done" /\ req[p].op # "read") =>
        \A p \in Procs : EffectPersisted(req[p])

\* C10: a store constructed while add_texts runs never combines index.faiss
\* of one generation with index.pkl or the provenance map of another: what it
\* loaded is one consistent index with exactly its own provenance map.
C10_NoTornRead ==
    \A p \in Procs :
        (pc[p] = "done" /\ req[p].op = "read") =>
            /\ inst[p].ivec = inst[p].vs
            /\ RebuildDocuments(inst[p].mm) = EndpointDocs(inst[p].vs)

\* C11: a delete_by_file_path on the local store whose rebuild or persist step
\* failed reports an error to its caller, distinguishable from the result 0
\* of a key without chunks.
C11_DeleteFailureSurfaced ==
    (last.op = "delete_at" /\ last.failed) => last.outcome.error

\* C13: when store_api_spec of a specification under a new key fails, no
\* chunk of that specification is in the in-memory index or in the persisted
\* index files, and the persisted provenance map has no entry for its key.
C13_IngestAllOrNothing ==
    (last.op = "store_at" /\ last.raised /\ last.fresh) =>
        /\ DocsOfKey(vector_store, last.key) = <<>>
        /\ DocsOfKey(diskFaiss.data, last.key) = <<>>
        /\ DocsOfKey(diskPkl.data, last.key) = <<>>
        /\ last.key \notin MapKeys(LoadMetadata(diskMeta))

\* C12: when an upload request fails after it started (parse error, embedding
\* failure, backend add failure), the upload directory holds no file of that
\* upload and the index holds no chunk under its key.
C12_FailedUploadLeavesNothing ==
    (last.op = "upload" /\ last.status = 500) =>
        /\ files[last.key].state # "saved"
        /\ IndexedUnder(last.key) = 0

\* C14: delete_by_file_path(key) on the local store leaves every endpoint
\* chunk that does not carry key (chunks of other keys, chunks ingested
\* without file_path) in the index with the same text and metadata.
C14_DeleteLeavesOtherChunks ==
    [][last'.op = "delete" =>
          \A i \in DOMAIN vector_store :
              (/\ "endpoint" \in DOMAIN vector_store[i].metadata
               /\ Get(vector_store[i].metadata, "file_path") # last'.key)
              => \E j \in DOMAIN vector_store' :
                     vector_store'[j] = vector_store[i]]_vars

\* C15: deleting by a key that has no chunks returns 0 and changes neither
\* the in-memory index, nor the provenance map, nor the persisted files (on
\* the Qdrant store: nor the collection).
C15_DeleteAbsentKeyIsNoOp ==
    [][/\ (last'.op = "delete" /\ last'.held = 0) =>
              (last'.ret = 0 /\ UNCHANGED storeVars)
       /\ (last'.op = "qdrant_delete" /\ last'.held = 0) =>
              (last'.ret = 0 /\ points' = points)]_vars

C15_Witness ==
    /\ last.op = "delete"
    /\ last.held = 0
    /\ last.ret = 0
    /\ Len(EndpointDocs(vector_store)) = 2
    /\ diskMeta.exists

\* C16: ingesting under a second key a specification with an endpoint of
\* identical text adds its own chunks (no deduplication), and
\* delete_by_file_path of one of the two keys returns the number of that key's
\* chunks and leaves the chunks of the other key in the index.
SharesText(idx, k1, k2) ==
    \E i \in DOMAIN idx, j \in DOMAIN idx :
        /\ Get(idx[i].metadata, "file_path") = k1
        /\ Get(idx[j].metadata, "file_path") = k2
        /\ idx[i].text = idx[j].text

C16_NoDeduplication ==
    [][/\ last'.op = "store" =>
              vector_store' = vector_store \o AddedDocs(last'.batch)
       /\ last'.op = "delete" =>
              \A b \in Keys \ {last'.key} :
                  SharesText(vector_store, last'.key, b) =>
                      /\ last'.ret = Len(DocsOfKey(vector_store, last'.key))
                      /\ DocsOfKey(vector_store', b) = DocsOfKey(vector_store, b)
                      /\ DocsOfKey(vector_store', b) # <<>>]_vars

C16_Witness ==
    /\ last.op = "delete"
    /\ last.held = 1
    /\ last.ret = 1
    /\ gone = {last.key}
    /\ \E i \in DOMAIN vector_store :
          /\ vector_store[i].text = PrepareEndpointText(EndpointId(1))
          /\ Get(vector_store[i].metadata, "file_path") \in Keys \ {last.key}

\* C17: after a clean request that succeeded, the index holds no chunk and
\* the upload directory holds no specification file, whether or not the
\* files had chunks in the index before the request.
C17_CleanLeavesNothing ==
    (last.op = "api_clean" /\ last.status = 200) =>
        /\ collection = <<>>
        /\ \A fp \in Keys : files[fp].state # "saved"

\* C20: get_openapi_versions returns the sorted list of the distinct
\* non-empty openapi_version values of all chunks of the index, however many
\* chunks the index holds.
C20_AllVersionsListed ==
    last.op = "api_versions" =>
        last.versions =
            SortedVersions({collection[i].openapi_version :
                                i \in DOMAIN collection} \ {None})

\* C18: similarity_search(query, k, filter) on the local store returns at
\* most k chunks, and they follow one another in the order of the ranking
\* (nearest first), with or without a filter.
RECURSIVE IsSubsequence(_, _)
IsSubsequence(sub, seq) ==
    IF sub = <<>> THEN TRUE
    ELSE IF seq = <<>> THEN FALSE
    ELSE IF Head(sub) = Head(seq) THEN IsSubsequence(Tail(sub), Tail(seq))
    ELSE IsSubsequence(sub, Tail(seq))

C18_AtMostKInRankOrder ==
    (last.op = "similarity_search" /\ ~last.raised) =>
        /\ Len(last.docs) <= last.k
        /\ IsSubsequence(last.docs, vector_store)

C18_Witness ==
    /\ last.op = "similarity_search"
    /\ last.filter # NoFilter
    /\ ~last.raised
    /\ last.k = 2
    /\ Len(last.docs) = 2
    /\ Len(vector_store) = 4
    /\ last.docs = <<vector_store[2], vector_store[4]>>
    /\ vector_store[1] # vector_store[2]
    /\ MatchesFilter(vector_store[1].metadata, last.filter) = "False"

C21_LlmOfConfiguredProvider ==
    last.op = "create_llm" =>
        IF settings.llm_provider \in {"openai", "deepseek", "siliconflow"}
        THEN /\ ~last.raised
             /\ last.llm.model_name = settings[settings.llm_provider \o "_model"]
             /\ last.llm.openai_api_base =
                    settings[settings.llm_provider \o "_base_url"]
        ELSE /\ last.raised
             /\ last.llm = NoClient

C21_Witness ==
    /\ last.op = "create_llm"
    /\ settings.llm_provider = "siliconflow"
    /\ settings.siliconflow_model # DefaultSettings.siliconflow_model
    /\ settings.deepseek_model = DefaultSettings.deepseek_model
    /\ last.llm.model_name = settings.siliconflow_model
    /\ last.llm.openai_api_base = settings.siliconflow_base_url

\* C22: if the process stops at any point during delete_by_file_path on the
\* local store (between the index rebuild, the index save and the
\* provenance-map save), the persisted index files and the persisted
\* metadata.json are both those from before the delete or both those of the
\* completed delete.
C22_DeleteCrashAtomic ==
    (last.op = "stop_delete" /\ ~last.torn) =>
        <<diskFaiss, diskPkl, diskMeta>> \in {last.pre, last.post}

\* C23: in a delete request the artifact file is removed only after the index
\* deletion for its provenance key has returned, and a request for a file name
\* that does not exist on disk ends with 404 without a change to the index or
\* to the upload directory.
C23_IndexDeletionBeforeDisk ==
    [][/\ \A fp \in Keys :
              (files[fp].state = "saved" /\ files'[fp].state = "removed") =>
                  \E p \in Procs : pc[p] = "index_deleted" /\ req[p].key = fp
       /\ \A p \in Procs :
              (pc[p] = "received" /\ pc'[p] # "received"
                 /\ files[req[p].key].state # "saved") =>
                  /\ pc'[p] = "idle"
                  /\ last'.op = "delete_file" /\ last'.status = 404
                  /\ UNCHANGED <<diskFaiss, diskPkl, diskMeta, points,
                                 collection, files>>]_vars

C23_Witness ==
    /\ last.op = "delete_file"
    /\ last.status = 200
    /\ last.deleted = 2
    /\ files[last.key].state = "removed"
    /\ IndexedUnder(last.key) = 0

\* C24: after every successful mutating operation on the local store
\* (add_texts, delete_by_file_path, clean) the on-disk state equals the
\* in-memory state: a new FAISSStore constructed from the index directory
\* holds the same index and the same provenance map as the instance that
\* performed the operation.  (Successful: no step of the call failed; the
\* calls before it may have failed.)
C24_PersistedEqualsMemory ==
    (\/ last.op \in {"store_at", "clean_at"} /\ last.failAt = "none"
     \/ last.op = "delete_at" /\ last.failAt = "none" /\ last.outcome.ret > 0)
    => FaissConstruct(StoreState) = StoreState

C24_Witness ==
    /\ last.op = "delete_at"
    /\ last.failAt = "none"
    /\ last.outcome.ret = 1
    /\ ~allOk
    /\ EndpointDocs(vector_store) # <<>>
    /\ FaissConstruct(StoreState) = StoreState

\* C25: constructing the local store never fails because of the persisted
\* index: when both index files exist and deserialize, the in-memory index is
\* the persisted one; when either file is missing or cannot be deserialized,
\* it is a fresh index with exactly one placeholder record and no endpoint
\* chunk.
C25_ConstructFallsBackToFresh ==
    last.op \in {"construct", "stop_add", "stop_delete", "stop_clean"} =>
        IF Readable(diskFaiss) /\ Readable(diskPkl)
        THEN vector_store = diskPkl.data
        ELSE /\ vector_store = <<InitDocument>>
             /\ EndpointDocs(vector_store) = <<>>

C25_Witness ==
    /\ last.op = "stop_add"
    /\ last.torn
    /\ diskFaiss.exists /\ diskPkl.exists
    /\ ~Readable(diskPkl)
    /\ EndpointDocs(diskFaiss.data) # <<>>
    /\ vector_store = FreshIndex

\* C26: immediately after a local store is constructed (also through the
\* fresh-index fallback) the provenance map and the index agree: a key is in
\* metadata_map exactly when the index holds chunks with that file_path; so a
\* later delete_by_file_path of one key never makes chunks of another key
\* searchable that were not searchable before it.
C26_MapAgreesWithIndexAtConstruction ==
    /\ last.op \in {"construct", "stop_add", "stop_delete", "stop_clean"} =>
          \A key \in Keys :
              key \in MapKeys(metadata_map) <=> DocsOfKey(vector_store, key) # <<>>
    /\ last.op = "delete_at" =>
          \A key \in Keys \ {last.key} :
              last.others[key] = 0 => DocsOfKey(vector_store, key) = <<>>

\* C27: on one local store instance, after any sequence of successful
\* add_texts (every metadata with a file_path), delete_by_file_path and clean
\* calls, the multiset of the endpoint chunks of the index equals the multiset
\* of the entries of metadata_map, and metadata_map[key] is as long as the
\* number of chunks of the index with file_path key.
Occurrences(seq, x) == Cardinality({i \in DOMAIN seq : seq[i] = x})

MapEntries(mm) == Flatten([i \in DOMAIN mm |-> mm[i].docs])

ChunkMetadatas(idx) ==
    [i \in DOMAIN EndpointDocs(idx) |-> EndpointDocs(idx)[i].metadata]

C27_MapMirrorsIndex ==
    /\ \A i \in DOMAIN ChunkMetadatas(vector_store) :
          Occurrences(ChunkMetadatas(vector_store), ChunkMetadatas(vector_store)[i])
              = Occurrences(MapEntries(metadata_map),
                            ChunkMetadatas(vector_store)[i])
    /\ \A i \in DOMAIN MapEntries(metadata_map) :
          Occurrences(ChunkMetadatas(vector_store), MapEntries(metadata_map)[i])
              = Occurrences(MapEntries(metadata_map), MapEntries(metadata_map)[i])
    /\ \A key \in Keys :
          IF key \in MapKeys(metadata_map)
          THEN Len(MapGet(metadata_map, key)) = Len(DocsOfKey(vector_store, key))
          ELSE DocsOfKey(vector_store, key) = <<>>

C27_Witness ==
    /\ last.op = "delete_at"
    /\ last.outcome.ret = 1
    /\ \E key \in MapKeys(metadata_map) :
          /\ Len(MapGet(metadata_map, key)) = 2
          /\ MapGet(metadata_map, key)[1] = MapGet(metadata_map, key)[2]
    /\ Len(EndpointDocs(vector_store)) = 2

\* C28: store_api_spec calls add_texts of the backend exactly once per ingest,
\* with one (text, metadata) pair per endpoint in endpoint order, so no search
\* observes a state in which a proper non-empty subset of the chunks of a
\* specification is in the index.
C28_NoPartialSpecification ==
    /\ \A p \in Procs :
          req[p].op = "ingest" =>
              /\ req[p].calls = 1
              /\ \A i \in 1..req[p].n :
                    StoreApiSpecCalls(req[p].n, req[p].ver, req[p].key)[1][i].endpoint
                        = EndpointId(i)
    /\ last.op = "qdrant_search" =>
          \A fp \in Keys :
              last.found[fp] = 0 \/ last.found[fp] = files[fp].endpoints

\* C29: the text rendered for an endpoint lists its sections in the fixed
\* order method, path, summary, description, tags, parameters, request-body
\* schema, response map (empty optional sections omitted), and rendering the
\* same endpoint twice yields the same text.
SectionsOf(parts) ==
    LET secs == [i \in DOMAIN parts |-> parts[i].section] IN
    SelectSeq([i \in DOMAIN secs |->
                  IF i > 1 /\ secs[i - 1] = secs[i] THEN "" ELSE secs[i]],
              LAMBDA x : x # "")

OptionalSections ==
    {"summary", "description", "tags", "parameters", "request_body", "responses"}

FieldOf(endpoint, section) ==
    IF section \in {"summary", "description"}
    THEN (IF endpoint[section] = "" THEN <<>> ELSE <<endpoint[section]>>)
    ELSE endpoint[section]

\* the sections follow `order`; path and method are always there; an optional
\* section is there only when its field is not empty, and always then, except
\* the parameters of the /api variant when no parameter has a name
RenderedInOrder(order) ==
    last.op \in {"text", "text_again"} =>
        /\ IsSubsequence(SectionsOf(last.parts), order)
        /\ \E i \in DOMAIN last.parts : last.parts[i].section = "path"
        /\ \E i \in DOMAIN last.parts : last.parts[i].section = "method"
        /\ \A sec \in OptionalSections :
              /\ (\E i \in DOMAIN last.parts : last.parts[i].section = sec)
                    => FieldOf(last.endpoint, sec) # <<>>
              /\ (FieldOf(last.endpoint, sec) # <<>>
                    /\ ~(sec = "parameters" /\ last.variant = "api"))
                    => \E i \in DOMAIN last.parts : last.parts[i].section = sec
        /\ last.op = "text_again" => last.again = last.text

C30_DimensionFixedUntilClean ==
    [][/\ (vector_size # NoCollection /\ vector_size' # vector_size)
              => last'.op = "dim_clean"
       /\ (vector_size # NoCollection
             /\ last'.op \in {"dim_add", "dim_search", "dim_delete"})
              => vector_size' = vector_size
       /\ last'.op = "dim_clean"
              => vector_size' = EmbeddingDimension(settings')]_vars
====
